---- MODULE Spec2Model ----
(***************************************************************************)
(* Event-driven demand-shock simulation of the paint-distribution          *)
(* dashboard (frontend App.jsx): date normalisation, window resolution,    *)
(* the four curve kernels, the two what-if composition branches of         *)
(* runWhatIf and the chart downsampler.                                    *)
(*                                                                         *)
(* Numbers.  JavaScript numbers are modelled by exact rationals <<n, d>>   *)
(* in lowest terms (d > 0); NaN is <<0, 0>>.  Point values (forecast,      *)
(* lower, upper) are integers counting tenths.  Math.exp is evaluated to   *)
(* four decimals (GaussTable).  Dates are integers counting UTC days since *)
(* 1 January of BaseYear; an Invalid Date is NaD.                          *)
(***************************************************************************)
EXTENDS Integers, Sequences, FiniteSets, TLC

VARIABLES
    \* ---- downsamplePoints harness
    dsPoints,        \* the point sequence handed to downsamplePoints
    dsMax,           \* maxPoints
    dsOut,           \* downsamplePoints(dsPoints, dsMax)
    dsMax2,          \* the budget of the second pass
    dsOut2,          \* downsamplePoints(dsOut, dsMax2)
    dsPc,            \* "in" | "once" | "twice"
    \* ---- buildEventMultiplier harness
    cvTag,           \* eventTag
    cvLabels,        \* dateLabels: [isArray |-> BOOLEAN, items |-> Seq(Label)]
    cvDealer,        \* context.dealer: [present |-> BOOLEAN, id |-> Int]
    cvNowYear,       \* new Date().getUTCFullYear() at the call
    cvOut,           \* the returned curve
    cvPc,            \* "in" | "built"
    \* ---- resolveWindow harness
    rwWindow,        \* profile.window
    rwDate,          \* the date being classified
    rwOut,           \* resolveWindow(date)
    rwPc,            \* "in" | "resolved"
    \* ---- the build flag and the React state read and written by runWhatIf
    DEMO_MODE,       \* import.meta.env: fixed for the life of the page
    demoMode,
    selectedSku,
    selectedRegion,
    selectedDealer,
    timeHorizon,
    whatIfPercent,
    whatIfEvent,
    today,           \* the UTC day of the wall clock
    whatIfLoading,
    whatIfError,
    whatIfForecast,  \* NoForecast or [source, points]
    whatIfFetch,     \* the pending POST /api/simulate/whatif, or NoFetch
    whatIfData,      \* the response body the last non-demo result was built from
    \* ---- the debounce effect that starts runWhatIf
    baseLoading,
    whatIfTimerRef,  \* whatIfTimerRef.current: a timer id, or 0 for null
    timers,          \* the browser's pending timeouts: [id, left (ms), run (closure)]
    sinceChange,     \* ms since a simulation input last changed (saturates)
    lastRun,         \* the inputs read by the latest runWhatIf invocation, or NoRun
    burstRuns,       \* invocations started by the effect's timers since that change
    userActions,     \* how many times the user has changed an input or clicked Run
    \* ---- one fetchJson call
    fjPc,            \* "idle" | "headers" | "errorBody" | "body" | "settled"
    fjTimer,         \* ms left on the abort timeout, or TimerCleared
    fjElapsed,       \* ms since the call started (saturates)
    fjResult,        \* "", "resolved", or the message of the rejection
    \* ---- the build environment and the state written by the four data loads
    demoFlag,        \* import.meta.env.VITE_DEMO_MODE: "0", "1", or "" when unset
    envMode,         \* import.meta.env.MODE
    baseData,        \* what summary, dealers, skus, ... hold: "none" | "api" | "empty" | "demo"
    baseError,
    forecastData,    \* what forecast holds: "none" | "api" | "demo"
    forecastError,
    rebalanceData,   \* what rebalance holds: "none" | "api" | "demo"
    rebalanceError,
    dealerData,      \* what inventory and alerts hold: "none" | "api" | "demo"
    dealerError,
    ldPending,       \* the loads whose fetch has not settled
    \* ---- runWhatIf invocations that overlap
    ovInFlight,      \* the invocations awaiting their response: [seq, inputs]
    ovSeq,           \* how many invocations have started
    ovLatest         \* the inputs read by the most recently started one, or NoInputs

dsVars == <<dsPoints, dsMax, dsOut, dsMax2, dsOut2, dsPc>>
cvVars == <<cvTag, cvLabels, cvDealer, cvNowYear, cvOut, cvPc>>
rwVars == <<rwWindow, rwDate, rwOut, rwPc>>
wiVars == <<DEMO_MODE, demoMode, selectedSku, selectedRegion, selectedDealer, timeHorizon,
            whatIfPercent, whatIfEvent, today, whatIfLoading, whatIfError,
            whatIfForecast, whatIfFetch, whatIfData>>
rxVars == <<baseLoading, whatIfTimerRef, timers, sinceChange, lastRun, burstRuns,
            userActions>>
fjVars == <<fjPc, fjTimer, fjElapsed, fjResult>>
ldVars == <<demoFlag, envMode, baseData, baseError, forecastData, forecastError,
            rebalanceData, rebalanceError, dealerData, dealerError, ldPending>>
ovVars == <<ovInFlight, ovSeq, ovLatest>>
vars == <<dsVars, cvVars, rwVars, wiVars, rxVars, fjVars, ldVars, ovVars>>

(***************************************************************************)
(* Bounds of the model.                                                    *)
(***************************************************************************)
MaxLen == 12         \* longest point sequence handed to downsamplePoints
MaxBudget == 4       \* largest maxPoints tried
MaxLabels == 2       \* longest dateLabels sequence handed to buildEventMultiplier
MaxServerPoints == 3 \* most points in a what-if response
MaxDist == 18        \* most days between a spike center and a date around it

(***************************************************************************)
(* Absent values: null, undefined.                                         *)
(***************************************************************************)
NoDealer == [present |-> FALSE, id |-> 0]

NoWindow == [present |-> FALSE, start |-> <<0, 0>>, end |-> <<0, 0>>]

NoResolved == [present |-> FALSE, start |-> 0, end |-> 0]

NoForecast == [source |-> "none", hasPoints |-> FALSE, points |-> <<>>]

NoFetch ==
    [pending |-> FALSE, horizon |-> 0, percent |-> 0, event |-> "", dealer |-> NoDealer]

NoData == [hasPoints |-> FALSE, points |-> <<>>]

\* the state one render of the component closes over, as far as runWhatIf reads it
NoInputs ==
    [sku |-> 0, region |-> "", dealer |-> NoDealer, horizon |-> 0, percent |-> 0,
     event |-> "", demoMode |-> FALSE]

\* lastRun: whether runWhatIf was invoked, by the effect's timer or by a click,
\* how long after the last input change (for the timer), and with which
\* render's state
NoRun == [started |-> FALSE, byTimer |-> FALSE, after |-> 0, inputs |-> NoInputs]

TimerCleared == 0 - 1

(***************************************************************************)
(* Arithmetic.                                                             *)
(***************************************************************************)
Abs(x) == IF x < 0 THEN -x ELSE x

Min(a, b) == IF a <= b THEN a ELSE b

Max(a, b) == IF a >= b THEN a ELSE b

RECURSIVE Gcd(_, _)
Gcd(a, b) == IF b = 0 THEN a ELSE Gcd(b, a % b)

\* Math.ceil(a / b) for a >= 0, b > 0
CeilDiv(a, b) == (a + b - 1) \div b

NaN == <<0, 0>>

IsNaN(r) == r[2] = 0

\* the rational n/d in lowest terms with a positive denominator
Rat(n, d) ==
    IF d = 0 THEN NaN
    ELSE LET g == Gcd(Abs(n), Abs(d))
             s == IF d < 0 THEN -1 ELSE 1
         IN  <<s * (n \div g), s * (d \div g)>>

One == <<1, 1>>

Zero == <<0, 1>>

RatInt(k) == <<k, 1>>

RatAdd(a, b) ==
    IF IsNaN(a) \/ IsNaN(b) THEN NaN
    ELSE LET g == Gcd(a[2], b[2])
         IN  Rat(a[1] * (b[2] \div g) + b[1] * (a[2] \div g), (a[2] \div g) * b[2])

RatNeg(a) == IF IsNaN(a) THEN NaN ELSE <<-a[1], a[2]>>

RatSub(a, b) == RatAdd(a, RatNeg(b))

\* cross-cancelled product, so that intermediate values stay small
RatMul(a, b) ==
    IF IsNaN(a) \/ IsNaN(b) THEN NaN
    ELSE LET g1 == Gcd(Abs(a[1]), b[2])
             g2 == Gcd(Abs(b[1]), a[2])
         IN  <<(a[1] \div g1) * (b[1] \div g2), (a[2] \div g2) * (b[2] \div g1)>>

\* a / b; x/0 is NaN only for 0/0 in JavaScript, +-Infinity otherwise: the
\* callers below divide by zero only as 0/0
RatDiv(a, b) ==
    IF IsNaN(a) \/ IsNaN(b) \/ b[1] = 0 THEN NaN
    ELSE RatMul(a, IF b[1] < 0 THEN <<-b[2], -b[1]>> ELSE <<b[2], b[1]>>)

\* a <= b and a < b: false when either side is NaN; the two sides are brought
\* to the least common denominator
RatLe(a, b) ==
    /\ ~IsNaN(a) /\ ~IsNaN(b)
    /\ LET g == Gcd(a[2], b[2])
       IN  a[1] * (b[2] \div g) <= b[1] * (a[2] \div g)

RatLt(a, b) ==
    /\ ~IsNaN(a) /\ ~IsNaN(b)
    /\ LET g == Gcd(a[2], b[2])
       IN  a[1] * (b[2] \div g) < b[1] * (a[2] \div g)

\* Math.min / Math.max: NaN if either argument is NaN
RatMin(a, b) == IF IsNaN(a) \/ IsNaN(b) THEN NaN ELSE IF RatLe(a, b) THEN a ELSE b

RatMax(a, b) == IF IsNaN(a) \/ IsNaN(b) THEN NaN ELSE IF RatLe(a, b) THEN b ELSE a

\* Array.from / Array.prototype.map build their array once, element by
\* element: the function f as an explicit sequence
Array(f) == f @@ <<>>

\* <<q, r>> with x * n = q * d + r, 0 <= r < d, for x, n >= 0, d > 0, computed
\* bit by bit so that no intermediate value exceeds 2 * d + n
RECURSIVE MulDivMod(_, _, _)
MulDivModStep(h, bit, n, d) ==
    <<2 * h[1] + ((2 * h[2] + bit * n) \div d), (2 * h[2] + bit * n) % d>>

MulDivMod(x, n, d) ==
    IF x = 0 THEN <<0, 0>>
    ELSE MulDivModStep(MulDivMod(x \div 2, n, d), x % 2, n, d)

\* the NaN that a point value becomes when it is scaled by NaN
NaNTenths == 0 - 1

\* const round = (value) => Math.round(value * 10) / 10, applied to
\* value = tenths / 10 * r, for tenths >= 0 and a rational r >= 0: the result
\* in tenths.  Math.round rounds a half up.
RoundScaled(tenths, r) ==
    IF IsNaN(r) \/ tenths = NaNTenths THEN NaNTenths
    ELSE LET qr == MulDivMod(tenths, r[1], r[2])
         IN  IF 2 * qr[2] >= r[2] THEN qr[1] + 1 ELSE qr[1]

(***************************************************************************)
(* Calendar: new Date(Date.UTC(y, m - 1, d)) and the getUTC* accessors.    *)
(***************************************************************************)
BaseYear == 2022

\* the years whose days the model can name
Years == 2021 .. 2027

NaD == 0 - 100000

IsLeap(y) == (y % 4 = 0 /\ y % 100 # 0) \/ y % 400 = 0

DaysInYear(y) == IF IsLeap(y) THEN 366 ELSE 365

RECURSIVE DaysBeforeYear(_)
DaysBeforeYear(y) ==
    IF y = BaseYear THEN 0
    ELSE IF y > BaseYear THEN DaysBeforeYear(y - 1) + DaysInYear(y - 1)
    ELSE DaysBeforeYear(y + 1) - DaysInYear(y)

\* the day on which each year starts
YearStart == [y \in Years |-> DaysBeforeYear(y)]

\* the days of a year before each month, and before the month after December
MonthStart(y) ==
    IF IsLeap(y) THEN <<0, 31, 60, 91, 121, 152, 182, 213, 244, 274, 305, 335, 366>>
    ELSE <<0, 31, 59, 90, 120, 151, 181, 212, 243, 273, 304, 334, 365>>

\* makeUTCDate: Date.UTC carries a month or a day that overflows into the
\* next year or month (29 February of a common year is 1 March)
makeUTCDate(year, month, day) ==
    IF year = NaD THEN NaD
    ELSE LET y == year + ((month - 1) \div 12)
             m == ((month - 1) % 12) + 1
         IN  YearStart[y] + MonthStart(y)[m] + day - 1

getUTCFullYear(date) ==
    IF date = NaD THEN NaD
    ELSE CHOOSE y \in Years : YearStart[y] <= date /\ date < YearStart[y] + DaysInYear(y)

getUTCMonth1(date) ==
    LET y == getUTCFullYear(date)
        dayOfYear == date - YearStart[y]
    IN  CHOOSE m \in 1 .. 12 :
            MonthStart(y)[m] <= dayOfYear /\ dayOfYear < MonthStart(y)[m + 1]

getUTCDate(date) ==
    LET y == getUTCFullYear(date)
    IN  date - YearStart[y] - MonthStart(y)[getUTCMonth1(date)] + 1

(***************************************************************************)
(* SeriesDownsampler.                                                      *)
(***************************************************************************)
\* points.filter(keep), where keep reads the index only
RECURSIVE FilterByIndex(_, _, _, _)
FilterByIndex(points, step, i, acc) ==
    IF i > Len(points) THEN acc
    ELSE FilterByIndex(points, step, i + 1,
            IF (i - 1) % step = 0 \/ (i - 1) = Len(points) - 1
            THEN Append(acc, points[i]) ELSE acc)

downsamplePoints(points, maxPoints) ==
    IF Len(points) <= maxPoints THEN points
    ELSE LET step == CeilDiv(Len(points), maxPoints)
         IN  FilterByIndex(points, step, 1, <<>>)

(***************************************************************************)
(* EventProfileCatalog.  Impacts are in hundredths (-25 is -0.25); a       *)
(* window or center bound is <<month, day>>; widthDays 0 stands for an     *)
(* absent widthDays.                                                       *)
(***************************************************************************)
Profile(kind, avg, peak, hasWindow, ws, we, hasCenter, c, width) ==
    [kind |-> kind, avgImpact |-> avg, peakImpact |-> peak,
     hasWindow |-> hasWindow, window |-> [start |-> ws, end |-> we],
     hasCenter |-> hasCenter, center |-> c, widthDays |-> width]

TagMonsoon == "Monsoon Month (Jun-Sep)"
TagDiwali == "Diwali Festival (Oct-Nov)"
TagBoom == "Construction Boom (Feb-May)"
TagSummer == "Summer Paint Push (Mar-Apr)"
TagYearEnd == "Year-End Promo (Dec)"
TagWinter == "Winter Slowdown (Jan)"
TagExpo == "Regional Expo (Sep)"
TagAnniversary == "Dealer Anniversary (Variable)"

EVENT_PROFILES ==
    (TagMonsoon :> Profile("dip", -12, -25, TRUE, <<6, 15>>, <<9, 15>>, FALSE, <<0, 0>>, 0)) @@
    (TagDiwali :> Profile("spike", 18, 32, FALSE, <<0, 0>>, <<0, 0>>, TRUE, <<10, 25>>, 24)) @@
    (TagBoom :> Profile("ramp", 12, 28, TRUE, <<2, 10>>, <<5, 31>>, FALSE, <<0, 0>>, 0)) @@
    (TagSummer :> Profile("step", 8, 18, TRUE, <<3, 15>>, <<4, 30>>, FALSE, <<0, 0>>, 0)) @@
    (TagYearEnd :> Profile("step", 7, 18, TRUE, <<12, 1>>, <<12, 31>>, FALSE, <<0, 0>>, 0)) @@
    (TagWinter :> Profile("dip", -6, -12, TRUE, <<1, 1>>, <<1, 31>>, FALSE, <<0, 0>>, 0)) @@
    (TagExpo :> Profile("spike", 5, 12, FALSE, <<0, 0>>, <<0, 0>>, TRUE, <<9, 10>>, 12)) @@
    (TagAnniversary :> Profile("spike", 4, 10, FALSE, <<0, 0>>, <<0, 0>>, FALSE, <<0, 0>>, 10))

EVENT_OPTIONS == DOMAIN EVENT_PROFILES

\* a tag that is no key of the catalog
TagUnlisted == "Unlisted Event"

(***************************************************************************)
(* DateNormalizer.  A date label is [kind, v]:                             *)
(*   "none"  null, undefined or ""                                         *)
(*   "iso"   a string matching YYYY-MM-DD, v = <<year, month, day>>        *)
(*   "junk"  a string no Date can be parsed from, v[1] tells strings apart *)
(*   "date"  a Date object, v[1] = its UTC day, or NaD for an Invalid Date *)
(***************************************************************************)
LabelNone == [kind |-> "none", v |-> <<0, 0, 0>>]

LabelIso(y, m, d) == [kind |-> "iso", v |-> <<y, m, d>>]

LabelJunk(k) == [kind |-> "junk", v |-> <<k, 0, 0>>]

LabelDate(day) == [kind |-> "date", v |-> <<day, 0, 0>>]

\* the null that toUTCDate returns
NullDate == 0 - 200000

toUTCDate(value) ==
    IF value.kind = "none" THEN NullDate
    ELSE IF value.kind = "date"
         THEN makeUTCDate(getUTCFullYear(value.v[1]),
                          IF value.v[1] = NaD THEN 1 ELSE getUTCMonth1(value.v[1]),
                          IF value.v[1] = NaD THEN 1 ELSE getUTCDate(value.v[1]))
    ELSE IF value.kind = "iso" THEN makeUTCDate(value.v[1], value.v[2], value.v[3])
    ELSE NullDate

\* mutant: labels that carry no date are dropped instead of given a fallback
IsDated(value) == toUTCDate(value) # NullDate

NormalizeDates_DropUndated(dateLabels, nowYear) ==
    LET kept == SelectSeq(dateLabels, IsDated)
    IN  Array([i \in 1 .. Len(kept) |-> toUTCDate(kept[i])])

\* mutant: every undated label gets the same fallback date
NormalizeDates_OneFallback(dateLabels, nowYear) ==
    Array([i \in 1 .. Len(dateLabels) |->
        LET parsed == toUTCDate(dateLabels[i])
        IN  IF parsed # NullDate THEN parsed
            ELSE makeUTCDate(nowYear, 1, 1) + 1])

\* dateLabels.map((label, index) => ...): index is 0-based, i is index + 1
NormalizeDates(dateLabels, nowYear) ==
    Array([i \in 1 .. Len(dateLabels) |->
        LET parsed == toUTCDate(dateLabels[i])
        IN  IF parsed # NullDate THEN parsed
            ELSE makeUTCDate(nowYear, 1, 1) + ((i - 1) + 1)])

\* the relational operators on Date objects: false when either is invalid
DateLt(a, b) == a # NaD /\ b # NaD /\ a < b

DateLe(a, b) == a # NaD /\ b # NaD /\ a <= b

(***************************************************************************)
(* WindowResolver.                                                         *)
(***************************************************************************)
\* mutant: the tail of a wrapping window is tested with < instead of <=
resolveWindow_StrictTail(profile, date) ==
    IF ~profile.hasWindow THEN NoResolved
    ELSE LET year == getUTCFullYear(date)
             start == makeUTCDate(year, profile.window.start[1], profile.window.start[2])
             end == makeUTCDate(year, profile.window.end[1], profile.window.end[2])
         IN  IF DateLt(end, start)
             THEN IF DateLt(date, end)
                  THEN [present |-> TRUE,
                        start |-> makeUTCDate(year - 1, profile.window.start[1],
                                              profile.window.start[2]),
                        end |-> end]
                  ELSE [present |-> TRUE, start |-> start,
                        end |-> makeUTCDate(year + 1, profile.window.end[1],
                                            profile.window.end[2])]
             ELSE [present |-> TRUE, start |-> start, end |-> end]

resolveWindow(profile, date) ==
    IF ~profile.hasWindow THEN NoResolved
    ELSE LET year == getUTCFullYear(date)
             start == makeUTCDate(year, profile.window.start[1], profile.window.start[2])
             end == makeUTCDate(year, profile.window.end[1], profile.window.end[2])
         IN  IF DateLt(end, start)
             THEN IF DateLe(date, end)
                  THEN [present |-> TRUE,
                        start |-> makeUTCDate(year - 1, profile.window.start[1],
                                              profile.window.start[2]),
                        end |-> end]
                  ELSE [present |-> TRUE, start |-> start,
                        end |-> makeUTCDate(year + 1, profile.window.end[1],
                                            profile.window.end[2])]
             ELSE [present |-> TRUE, start |-> start, end |-> end]

(***************************************************************************)
(* SpikeKernel.                                                            *)
(***************************************************************************)
IsAnniversaryTag(eventTag) == eventTag = TagAnniversary

\* mutant: without a dealer the anniversary falls back to dealer id 1
resolveCenter_DefaultDealer(profile, eventTag, context, date) ==
    IF profile.hasCenter
    THEN makeUTCDate(getUTCFullYear(date), profile.center[1], profile.center[2])
    ELSE IF IsAnniversaryTag(eventTag)
    THEN LET id == IF ~context.present \/ context.id = 0 THEN 1 ELSE context.id
             month == (id % 12) + 1
         IN  makeUTCDate(getUTCFullYear(date), month, 15)
    ELSE NullDate

resolveCenter(profile, eventTag, context, date) ==
    IF profile.hasCenter
    THEN makeUTCDate(getUTCFullYear(date), profile.center[1], profile.center[2])
    ELSE IF IsAnniversaryTag(eventTag) /\ context.present
    THEN LET id == IF context.id = 0 THEN 1 ELSE context.id
             month == (id % 12) + 1
         IN  makeUTCDate(getUTCFullYear(date), month, 15)
    ELSE NullDate

\* 10000 * Math.exp(-0.5 * (dist / sigma) ** 2), rounded, for dist = 0, 1, ...
\* and sigma = Math.max(3, widthDays / 2.355); 0 beyond the end of the table
GaussTable(widthDays) ==
    IF widthDays = 24 THEN
        <<10000, 9952, 9809, 9576, 9259, 8866, 8409, 7899, 7348, 6771, 6179, 5585,
          4999, 4433, 3892, 3385, 2916, 2487, 2102, 1759, 1458, 1197, 973, 783, 625,
          493, 386, 299, 230, 174, 131, 98, 72, 53, 38, 27, 20, 14, 10, 7, 5, 3, 2,
          1, 1, 1>>
    ELSE IF widthDays = 12 THEN
        <<10000, 9809, 9259, 8409, 7348, 6179, 4999, 3892, 2916, 2102, 1458, 973,
          625, 386, 230, 131, 72, 38, 20, 10, 5, 2, 1>>
    ELSE IF widthDays = 10 THEN
        <<10000, 9727, 8950, 7791, 6417, 4999, 3685, 2570, 1695, 1058, 625, 349,
          184, 92, 44, 20, 8, 3, 1>>
    ELSE \* widthDays ?? 14
        <<10000, 9860, 9450, 8804, 7974, 7021, 6009, 4999, 4044, 3179, 2430, 1805,
          1304, 915, 625, 414, 267, 168, 102, 61, 35, 20, 11, 6, 3, 1, 1>>

\* Math.exp(-0.5 * (dist / sigma) ** 2) as a rational
Gauss(widthDays, dist) ==
    LET table == GaussTable(widthDays)
        k == Abs(dist) + 1
    IN  IF k <= Len(table) THEN Rat(table[k], 10000) ELSE Zero

Impact(profile) == Rat(profile.peakImpact, 100)

(***************************************************************************)
(* CurveBuilder: the multiplier of one date, then buildEventMultiplier.    *)
(***************************************************************************)
SpikeMultiplier(profile, eventTag, context, date) ==
    LET centerDate == resolveCenter(profile, eventTag, context, date)
    IN  IF centerDate = NullDate THEN One
        ELSE IF date = NaD \/ centerDate = NaD THEN NaN
        ELSE LET widthDays == IF profile.widthDays = 0 THEN 14 ELSE profile.widthDays
                 dist == date - centerDate
             IN  RatAdd(One, RatMul(Impact(profile), Gauss(widthDays, dist)))

\* mutant: the position is measured from the end of the window
WindowPosition_FromEnd(window, date) ==
    IF date = NaD \/ window.start = NaD \/ window.end = NaD THEN NaN
    ELSE RatMin(One, RatMax(Zero, Rat(window.end - date, window.end - window.start)))

WindowPosition(window, date) ==
    IF date = NaD \/ window.start = NaD \/ window.end = NaD THEN NaN
    ELSE RatMin(One, RatMax(Zero, Rat(date - window.start, window.end - window.start)))

\* mutant: only dates before the window count as outside
IsOutside_NoUpperBound(window, date) == DateLt(date, window.start)

IsOutside(window, date) == DateLt(date, window.start) \/ DateLt(window.end, date)

\* mutant: a step is evaluated like a ramp
WindowImpact_StepAsRamp(profile, t) ==
    IF profile.kind = "dip"
    THEN LET dist == RatSub(t, Rat(1, 2))
         IN  RatMul(Impact(profile),
                    RatSub(One, RatMin(One, RatMul(RatMul(dist, dist), RatInt(4)))))
    ELSE RatMul(Impact(profile), t)

\* mutant: the parabola of a dip is not scaled to vanish at the window edges
WindowImpact_DipUnscaled(profile, t) ==
    IF profile.kind = "dip"
    THEN LET dist == RatSub(t, Rat(1, 2))
         IN  RatMul(Impact(profile), RatSub(One, RatMin(One, RatMul(dist, dist))))
    ELSE IF profile.kind = "ramp" THEN RatMul(Impact(profile), t)
    ELSE IF profile.kind = "step" THEN Impact(profile)
    ELSE Zero

WindowImpact(profile, t) ==
    IF profile.kind = "dip"
    THEN LET dist == RatSub(t, Rat(1, 2))
         IN  RatMul(Impact(profile),
                    RatSub(One, RatMin(One, RatMul(RatMul(dist, dist), RatInt(4)))))
    ELSE IF profile.kind = "ramp" THEN RatMul(Impact(profile), t)
    ELSE IF profile.kind = "step" THEN Impact(profile)
    ELSE Zero

WindowMultiplier(profile, date) ==
    LET window == resolveWindow(profile, date)
    IN  IF ~window.present THEN One
        ELSE IF IsOutside(window, date) THEN RatAdd(One, Zero)
        ELSE RatAdd(One, WindowImpact(profile, WindowPosition(window, date)))

Multiplier(profile, eventTag, context, date) ==
    IF profile.kind = "spike" THEN SpikeMultiplier(profile, eventTag, context, date)
    ELSE WindowMultiplier(profile, date)

\* dateLabels is [isArray, items]; context is context.dealer; nowYear is the
\* year the fallback dates are anchored on
buildEventMultiplier(eventTag, dateLabels, context, nowYear) ==
    IF eventTag \notin DOMAIN EVENT_PROFILES \/ ~dateLabels.isArray
          \/ Len(dateLabels.items) = 0
    THEN <<>>
    ELSE LET profile == EVENT_PROFILES[eventTag]
             dates == NormalizeDates(dateLabels.items, nowYear)
         IN  Array([i \in 1 .. Len(dates) |-> Multiplier(profile, eventTag, context, dates[i])])

(***************************************************************************)
(* Demo series and date labels of a point series.                          *)
(***************************************************************************)
\* value.toISOString().slice(0, 10)
formatDate(date) == LabelIso(getUTCFullYear(date), getUTCMonth1(date), getUTCDate(date))

\* 1000 * 8 * Math.sin(index / 4), rounded, for index = 0, 1, ...
SeasonalMilli ==
    <<0, 1979, 3835, 5453, 6732, 7592, 7980, 7872, 7274, 6225, 4788, 3053, 1129, -866, -2806,
      -4572, -6054, -7160, -7820, -7994, -7671, -6871, -5644, -4066, -2235, -265, 1721, 3600,
      5256, 6585>>

\* buildDemoPoints(horizon, base, trend = 0.6) with base in units and start =
\* new Date() on UTC day now; values in tenths
buildDemoPoints(horizon, base, now) ==
    Array([i \in 1 .. horizon |->
        LET index == i - 1
            value == Rat(base * 1000 + 600 * index + SeasonalMilli[i], 1000)
            forecast == RoundScaled(10, value)
        IN  [date |-> formatDate(now + (index + 1)),
             forecast |-> forecast,
             lower |-> RoundScaled(forecast, Rat(88, 100)),
             upper |-> RoundScaled(forecast, Rat(112, 100))]])

buildDailyLabels(count, now) == Array([i \in 1 .. count |-> formatDate(now + ((i - 1) + 1))])

Truthy(label) == label.kind # "none"

\* mutant: repeated labels are kept; only a missing label triggers the fallback
resolvePointDates_KeepRepeated(points, now) ==
    IF Len(points) = 0 THEN <<>>
    ELSE LET raw == Array([i \in 1 .. Len(points) |-> points[i].date])
         IN  IF \E i \in 1 .. Len(raw) : ~Truthy(raw[i])
             THEN buildDailyLabels(Len(points), now)
             ELSE raw

resolvePointDates(points, now) ==
    IF Len(points) = 0 THEN <<>>
    ELSE LET raw == Array([i \in 1 .. Len(points) |-> points[i].date])
             unique == {raw[i] : i \in {j \in 1 .. Len(raw) : Truthy(raw[j])}}
         IN  IF Cardinality(unique) <= 1 \/ \E i \in 1 .. Len(raw) : ~Truthy(raw[i])
             THEN buildDailyLabels(Len(points), now)
             ELSE raw

(***************************************************************************)
(* WhatIfComposer: the two branches of runWhatIf.                          *)
(***************************************************************************)
\* mutant: a missing multiplier counts as 0 instead of the fallback
OrElse_Zero(array, i, fallback) == IF i <= Len(array) THEN array[i] ELSE Zero

\* array[index] ?? fallback, for the 1-based position i
OrElse(array, i, fallback) == IF i <= Len(array) THEN array[i] ELSE fallback

\* mutant: the band is scaled by the percent shift alone
ComposeDemo_BandShiftOnly(horizon, percent, eventTag, dealer, now) ==
    LET base == buildDemoPoints(horizon, 120, now)
        multiplier == Rat(100 + percent, 100)
        baseDates == resolvePointDates(base, now)
        eventCurve == buildEventMultiplier(eventTag, [isArray |-> TRUE, items |-> baseDates],
                                           dealer, getUTCFullYear(now))
    IN  Array([i \in 1 .. Len(base) |->
            LET eventMultiplier == OrElse(eventCurve, i, One)
                combined == RatMul(multiplier, eventMultiplier)
            IN  [date |-> baseDates[i],
                 forecast |-> RoundScaled(base[i].forecast, combined),
                 lower |-> RoundScaled(base[i].lower, multiplier),
                 upper |-> RoundScaled(base[i].upper, multiplier)]])

\* lines 2225-2240 and 2300-2315: the demo baseline scaled by
\* (1 + whatIfPercent / 100) * eventCurve[index]
ComposeDemo(horizon, percent, eventTag, dealer, now) ==
    LET base == buildDemoPoints(horizon, 120, now)
        multiplier == Rat(100 + percent, 100)
        baseDates == resolvePointDates(base, now)
        eventCurve == buildEventMultiplier(eventTag, [isArray |-> TRUE, items |-> baseDates],
                                           dealer, getUTCFullYear(now))
    IN  Array([i \in 1 .. Len(base) |->
            LET eventMultiplier == OrElse(eventCurve, i, One)
                combined == RatMul(multiplier, eventMultiplier)
            IN  [date |-> OrElse(baseDates, i, base[i].date),
                 forecast |-> RoundScaled(base[i].forecast, combined),
                 lower |-> RoundScaled(base[i].lower, combined),
                 upper |-> RoundScaled(base[i].upper, combined)]])

RECURSIVE SumCurve(_, _)
SumCurve(curve, n) == IF n = 0 THEN Zero ELSE RatAdd(SumCurve(curve, n - 1), curve[n])

\* mutant: the curve is applied without dividing by its mean
NormalizedCurve_Raw(curve) == curve

\* mutant: the curve is divided by its sum instead of its mean
NormalizedCurve_BySum(curve) ==
    LET sum == SumCurve(curve, Len(curve))
        divisor == IF IsNaN(sum) \/ sum = Zero THEN One ELSE sum
    IN  Array([i \in 1 .. Len(curve) |-> RatDiv(curve[i], divisor)])

\* mutant: the curve is divided by its mean impact (mean - 1), unguarded
NormalizedCurve_ByMeanImpact(curve) ==
    LET avgCurve == RatDiv(SumCurve(curve, Len(curve)), RatInt(Max(1, Len(curve))))
    IN  Array([i \in 1 .. Len(curve) |-> RatDiv(curve[i], RatSub(avgCurve, One))])

\* curve.map((value) => value / (avgCurve || 1))
NormalizedCurve(curve) ==
    LET avgCurve == RatDiv(SumCurve(curve, Len(curve)), RatInt(Max(1, Len(curve))))
        divisor == IF IsNaN(avgCurve) \/ avgCurve = Zero THEN One ELSE avgCurve
    IN  Array([i \in 1 .. Len(curve) |-> RatDiv(curve[i], divisor)])

\* mutant: only the forecast is scaled, the band keeps the fetched values
ComposeFetched_ForecastOnly(points, eventTag, dealer, now) ==
    LET dates == resolvePointDates(points, now)
        curve == buildEventMultiplier(eventTag, [isArray |-> TRUE, items |-> dates],
                                      dealer, getUTCFullYear(now))
        normalized == NormalizedCurve(curve)
    IN  Array([i \in 1 .. Len(points) |->
            LET multiplier == OrElse(normalized, i, One)
            IN  [date |-> OrElse(dates, i, points[i].date),
                 forecast |-> RoundScaled(points[i].forecast, multiplier),
                 lower |-> points[i].lower,
                 upper |-> points[i].upper]])

\* lines 2271-2286: the fetched points scaled by the normalized curve
ComposeFetched(points, eventTag, dealer, now) ==
    LET dates == resolvePointDates(points, now)
        curve == buildEventMultiplier(eventTag, [isArray |-> TRUE, items |-> dates],
                                      dealer, getUTCFullYear(now))
        normalized == NormalizedCurve(curve)
    IN  Array([i \in 1 .. Len(points) |->
            LET multiplier == OrElse(normalized, i, One)
            IN  [date |-> OrElse(dates, i, points[i].date),
                 forecast |-> RoundScaled(points[i].forecast, multiplier),
                 lower |-> RoundScaled(points[i].lower, multiplier),
                 upper |-> RoundScaled(points[i].upper, multiplier)]])

(***************************************************************************)
(* Idle values of the four groups of variables: each specification below   *)
(* drives one group and leaves the others idle.                            *)
(***************************************************************************)
dsIdle ==
    /\ dsPoints = <<>> /\ dsMax = 0 /\ dsOut = <<>> /\ dsMax2 = 0 /\ dsOut2 = <<>>
    /\ dsPc = "idle"

cvIdle ==
    /\ cvTag = "" /\ cvLabels = [isArray |-> TRUE, items |-> <<>>]
    /\ cvDealer = NoDealer /\ cvNowYear = 0 /\ cvOut = <<>> /\ cvPc = "idle"

rwIdle ==
    /\ rwWindow = NoWindow /\ rwDate = 0 /\ rwOut = NoResolved /\ rwPc = "idle"

wiIdle ==
    /\ DEMO_MODE = FALSE /\ demoMode = FALSE /\ selectedSku = 0 /\ selectedRegion = "" /\ selectedDealer = NoDealer
    /\ timeHorizon = 0 /\ whatIfPercent = 0 /\ whatIfEvent = "" /\ today = 0
    /\ whatIfLoading = FALSE /\ whatIfError = "" /\ whatIfForecast = NoForecast
    /\ whatIfFetch = NoFetch /\ whatIfData = NoData

rxIdle ==
    /\ baseLoading = FALSE /\ whatIfTimerRef = 0 /\ timers = {} /\ sinceChange = 0
    /\ lastRun = NoRun /\ burstRuns = 0 /\ userActions = 0

fjIdle == fjPc = "idle" /\ fjTimer = TimerCleared /\ fjElapsed = 0 /\ fjResult = ""

ldIdle ==
    /\ demoFlag = "" /\ envMode = "" /\ baseData = "none" /\ baseError = ""
    /\ forecastData = "none" /\ forecastError = ""
    /\ rebalanceData = "none" /\ rebalanceError = ""
    /\ dealerData = "none" /\ dealerError = "" /\ ldPending = {}

ovIdle == ovInFlight = {} /\ ovSeq = 0 /\ ovLatest = NoInputs

(***************************************************************************)
(* SpecDownsample: downsamplePoints applied to a series, then to its own   *)
(* result with the same or a larger budget (forecastChart, whatIfChart).   *)
(* A point is represented by its position in the original series.          *)
(***************************************************************************)
Series(n) == [i \in 1 .. n |-> i]

InitDownsample ==
    /\ dsPoints \in {Series(n) : n \in 0 .. MaxLen}
    /\ dsMax \in 2 .. MaxBudget
    /\ dsOut = <<>> /\ dsMax2 = 0 /\ dsOut2 = <<>>
    /\ dsPc = "in"
    /\ cvIdle /\ rwIdle /\ wiIdle /\ rxIdle /\ fjIdle /\ ldIdle /\ ovIdle

Downsample ==
    /\ dsPc = "in"
    /\ dsOut' = downsamplePoints(dsPoints, dsMax)
    /\ dsPc' = "once"
    /\ UNCHANGED <<dsPoints, dsMax, dsMax2, dsOut2, cvVars, rwVars, wiVars, rxVars, fjVars, ldVars, ovVars>>

DownsampleAgain ==
    /\ dsPc = "once"
    /\ \E m \in dsMax .. MaxBudget + 1 :
        /\ dsMax2' = m
        /\ dsOut2' = downsamplePoints(dsOut, m)
    /\ dsPc' = "twice"
    /\ UNCHANGED <<dsPoints, dsMax, dsOut, cvVars, rwVars, wiVars, rxVars, fjVars, ldVars, ovVars>>

NextDownsample == Downsample \/ DownsampleAgain

SpecDownsample == InitDownsample /\ [][NextDownsample]_vars

\* the positions kept by a fixed stride, plus the last position
StridePositions(n, stride) == {i \in 1 .. n : (i - 1) % stride = 0} \cup {n}

StrictlyIncreasing(s) == \A i \in 1 .. Len(s) - 1 : s[i] < s[i + 1]

\* C1: downsamplePoints(points, N) is an order-preserving subsequence of points
\* of length at most N, for every N >= 2; it contains the first and the last
\* point; when length > N the kept positions are those at stride
\* ceil(length / N), plus the last position.
C1_SubsequenceWithinBudget ==
    dsPc # "in" /\ dsPc # "idle" =>
        /\ StrictlyIncreasing(dsOut)
        /\ \A i \in 1 .. Len(dsOut) : dsOut[i] \in 1 .. Len(dsPoints)
        /\ Len(dsOut) <= dsMax
        /\ Len(dsPoints) > 0 => dsOut[1] = 1 /\ dsOut[Len(dsOut)] = Len(dsPoints)
        /\ Len(dsPoints) > dsMax =>
              {dsOut[i] : i \in 1 .. Len(dsOut)}
                  = StridePositions(Len(dsPoints), CeilDiv(Len(dsPoints), dsMax))

\* C2: downsampling is idempotent: downsamplePoints(downsamplePoints(s, N), M)
\* equals downsamplePoints(s, N) for M = N and for every larger budget M > N.
C2_Idempotent ==
    dsPc = "twice" => dsOut2 = dsOut

(***************************************************************************)
(* SpecCurve: buildEventMultiplier(eventTag, dateLabels, { dealer }) on    *)
(* label sequences drawn from CurveLabels: the edges and the inside of the *)
(* catalog windows, a spike center, and labels that carry no date.         *)
(***************************************************************************)
CurveLabels ==
    { LabelNone, LabelJunk(1), LabelDate(NaD),
      LabelIso(2024, 2, 10), LabelIso(2024, 4, 5), LabelIso(2024, 5, 31),
      LabelIso(2024, 6, 1), LabelIso(2023, 5, 31),
      LabelIso(2024, 3, 14), LabelIso(2024, 3, 15),
      LabelIso(2024, 7, 31), LabelIso(2024, 10, 25) }

CurveDealers == {NoDealer, [present |-> TRUE, id |-> 3]}

CurveNowYears == {2023, 2024}

LabelSeqs(maxLen) == UNION {[1 .. n -> CurveLabels] : n \in 0 .. maxLen}

InitCurve ==
    /\ cvTag \in EVENT_OPTIONS \cup {TagUnlisted}
    /\ cvLabels \in {[isArray |-> TRUE, items |-> q] : q \in LabelSeqs(MaxLabels)}
                        \cup {[isArray |-> FALSE, items |-> <<>>]}
    /\ cvDealer \in CurveDealers
    /\ cvNowYear \in CurveNowYears
    /\ cvOut = <<>>
    /\ cvPc = "in"
    /\ dsIdle /\ rwIdle /\ wiIdle /\ rxIdle /\ fjIdle /\ ldIdle /\ ovIdle

BuildCurve ==
    /\ cvPc = "in"
    /\ cvOut' = buildEventMultiplier(cvTag, cvLabels, cvDealer, cvNowYear)
    /\ cvPc' = "built"
    /\ UNCHANGED <<cvTag, cvLabels, cvDealer, cvNowYear, dsVars, rwVars, wiVars, rxVars, fjVars, ldVars, ovVars>>

NextCurve == BuildCurve

SpecCurve == InitCurve /\ [][NextCurve]_vars

\* the state after a build for a catalog tag of one of the given kinds
BuiltFor(kinds) ==
    /\ cvPc = "built"
    /\ cvTag \in EVENT_OPTIONS
    /\ EVENT_PROFILES[cvTag].kind \in kinds
    /\ cvLabels.isArray

cvDates == NormalizeDates(cvLabels.items, cvNowYear)

cvWindow(i) == resolveWindow(EVENT_PROFILES[cvTag], cvDates[i])

cvInside(i) ==
    /\ cvDates[i] # NaD
    /\ cvWindow(i).start <= cvDates[i]
    /\ cvDates[i] <= cvWindow(i).end

cvBefore(i) == cvDates[i] # NaD /\ cvDates[i] < cvWindow(i).start

cvAfter(i) == cvDates[i] # NaD /\ cvDates[i] > cvWindow(i).end

cvPeak == Rat(100 + EVENT_PROFILES[cvTag].peakImpact, 100)

\* C6: the curve has exactly one multiplier per input date (same length as
\* dateLabels) and is the empty sequence exactly when the tag is not in the
\* catalog or dateLabels is empty or not a sequence.
C6_CurveLength ==
    cvPc = "built" =>
        /\ (cvOut = <<>>) <=>
              (cvTag \notin EVENT_OPTIONS \/ ~cvLabels.isArray \/ Len(cvLabels.items) = 0)
        /\ cvOut # <<>> => Len(cvOut) = Len(cvLabels.items)

C6_Witness ==
    /\ cvPc = "built" /\ cvTag = TagDiwali
    /\ Len(cvLabels.items) = 2 /\ Len(cvOut) = 2
    /\ cvLabels.items[1] = LabelNone

\* C8: for every dip, ramp or step profile and every date outside the
\* resolved window (d < start or d > end) the multiplier is exactly 1.
C8_OutsideWindowIsOne ==
    BuiltFor({"dip", "ramp", "step"}) =>
        \A i \in 1 .. Len(cvOut) : (cvBefore(i) \/ cvAfter(i)) => cvOut[i] = One

C8_Witness ==
    /\ BuiltFor({"ramp"})
    /\ \E i \in 1 .. Len(cvOut) : cvAfter(i)
    /\ \E i \in 1 .. Len(cvOut) : cvBefore(i)

\* C9: for a step profile the multiplier is the constant 1 + peakImpact for
\* every date inside the window and 1 for every date outside, so consecutive
\* dates straddling a window boundary differ by exactly peakImpact.
C9_StepIsConstant ==
    BuiltFor({"step"}) =>
        /\ \A i \in 1 .. Len(cvOut) :
              /\ cvInside(i) => cvOut[i] = cvPeak
              /\ (cvBefore(i) \/ cvAfter(i)) => cvOut[i] = One
        /\ \A i, j \in 1 .. Len(cvOut) :
              (cvDates[i] # NaD /\ cvDates[j] = cvDates[i] + 1 /\ cvInside(i) # cvInside(j))
                  => LET diff == RatSub(cvOut[j], cvOut[i])
                     IN  diff \in {Impact(EVENT_PROFILES[cvTag]),
                                   RatNeg(Impact(EVENT_PROFILES[cvTag]))}

C9_Witness ==
    /\ BuiltFor({"step"})
    /\ Len(cvOut) = 2
    /\ cvDates[2] = cvDates[1] + 1
    /\ cvBefore(1) /\ cvInside(2)
    /\ cvOut = <<One, Rat(118, 100)>>

\* C10: for a ramp profile with peakImpact >= 0, over ascending dates inside
\* one window occurrence the multiplier is non-decreasing, equals 1 at the
\* window start (t = 0) and exactly 1 + peakImpact at the window end (t = 1).
C10_RampMonotone ==
    (BuiltFor({"ramp"}) /\ EVENT_PROFILES[cvTag].peakImpact >= 0) =>
        /\ \A i \in 1 .. Len(cvOut) :
              (cvInside(i) /\ cvWindow(i).start < cvWindow(i).end) =>
                  /\ cvDates[i] = cvWindow(i).start => cvOut[i] = One
                  /\ cvDates[i] = cvWindow(i).end => cvOut[i] = cvPeak
        /\ \A i, j \in 1 .. Len(cvOut) :
              (cvInside(i) /\ cvInside(j) /\ cvWindow(i) = cvWindow(j)
                  /\ cvDates[i] <= cvDates[j]) => RatLe(cvOut[i], cvOut[j])

C10_Witness ==
    /\ BuiltFor({"ramp"})
    /\ Len(cvOut) = 2
    /\ cvInside(1) /\ cvInside(2)
    /\ cvDates[1] = cvWindow(1).start + 55
    /\ cvDates[2] = cvWindow(2).end
    /\ cvWindow(1) = cvWindow(2)
    /\ RatLt(One, cvOut[1]) /\ RatLt(cvOut[1], cvOut[2])
    /\ cvOut[2] = Rat(128, 100)

\* the label at position i is empty or an unparseable string
cvUndated(i) == cvLabels.items[i].kind \in {"none", "junk"}

\* C18: the normalized date sequence has the length of the input; every
\* position whose label is empty or unparseable gets 1 January of the current
\* year plus (index + 1) days; when no label parses the dates are strictly
\* increasing with position, hence pairwise distinct.
C18_PerElementFallback ==
    (cvPc = "built" /\ cvLabels.isArray) =>
        LET dates == cvDates
            n == Len(cvLabels.items)
        IN  /\ Len(dates) = n
            /\ \A i \in 1 .. n :
                  cvUndated(i) => dates[i] = makeUTCDate(cvNowYear, 1, 1) + ((i - 1) + 1)
            /\ (\A i \in 1 .. n : cvUndated(i)) =>
                  \A i, j \in 1 .. n : i < j => dates[i] < dates[j]

C18_Witness ==
    /\ cvPc = "built" /\ cvNowYear = 2023
    /\ cvLabels.items = <<LabelJunk(1), LabelNone>>
    /\ cvDates = <<makeUTCDate(2023, 1, 2), makeUTCDate(2023, 1, 3)>>

(***************************************************************************)
(* SpecDay: buildEventMultiplier on a single ISO label, for every catalog  *)
(* tag and every day of three years.                                       *)
(***************************************************************************)
DayDates == makeUTCDate(2023, 1, 1) .. makeUTCDate(2025, 12, 31)

InitDay ==
    /\ cvTag \in EVENT_OPTIONS
    /\ cvLabels \in {[isArray |-> TRUE, items |-> <<formatDate(d)>>] : d \in DayDates}
    /\ cvDealer \in CurveDealers
    /\ cvNowYear = 2024
    /\ cvOut = <<>>
    /\ cvPc = "in"
    /\ dsIdle /\ rwIdle /\ wiIdle /\ rxIdle /\ fjIdle /\ ldIdle /\ ovIdle

SpecDay == InitDay /\ [][NextCurve]_vars

\* |r - 1|
DistFromOne(r) == IF RatLe(One, r) THEN RatSub(r, One) ELSE RatSub(One, r)

cvAbsPeak == Rat(Abs(EVENT_PROFILES[cvTag].peakImpact), 100)

\* the date at position i is the midpoint of its window (t = 0.5)
cvAtMidpoint(i) ==
    cvInside(i) /\ 2 * (cvDates[i] - cvWindow(i).start) = cvWindow(i).end - cvWindow(i).start

\* C11: for a dip profile |multiplier - 1| is at most |peakImpact| on every
\* date, equals |peakImpact| at the window midpoint (t = 0.5), and the
\* multiplier is exactly 1 on the window start date and on the window end date.
C11_DipShape ==
    BuiltFor({"dip"}) =>
        \A i \in 1 .. Len(cvOut) :
            /\ RatLe(DistFromOne(cvOut[i]), cvAbsPeak)
            /\ cvAtMidpoint(i) => cvOut[i] = cvPeak
            /\ cvInside(i) /\ cvDates[i] \in {cvWindow(i).start, cvWindow(i).end}
                  => cvOut[i] = One

C11_Witness ==
    /\ BuiltFor({"dip"}) /\ cvTag = TagMonsoon
    /\ cvDates[1] = makeUTCDate(2024, 7, 31)
    /\ cvAtMidpoint(1)
    /\ cvOut = <<Rat(75, 100)>>

(***************************************************************************)
(* SpecSpike: buildEventMultiplier for a spike tag on three labels: a      *)
(* center date and two dates at most MaxDist days from it, on either side. *)
(* Two of the center dates lie within MaxDist days of 1 January.           *)
(***************************************************************************)
SpikeTags == {t \in EVENT_OPTIONS : EVENT_PROFILES[t].kind = "spike"}

SpikeDealers == {[present |-> TRUE, id |-> 3], [present |-> TRUE, id |-> 12]}

SpikeCenters ==
    { makeUTCDate(2024, 10, 25), makeUTCDate(2024, 9, 10), makeUTCDate(2024, 4, 15),
      makeUTCDate(2025, 1, 15) }

InitSpike ==
    /\ cvTag \in SpikeTags
    /\ cvLabels \in
          {[isArray |-> TRUE,
            items |-> <<formatDate(c), formatDate(c + a), formatDate(c + b)>>] :
              c \in SpikeCenters, a \in (0 - MaxDist) .. MaxDist, b \in (0 - MaxDist) .. MaxDist}
    /\ cvDealer \in SpikeDealers
    /\ cvNowYear = 2024
    /\ cvOut = <<>>
    /\ cvPc = "in"
    /\ dsIdle /\ rwIdle /\ wiIdle /\ rxIdle /\ fjIdle /\ ldIdle /\ ovIdle

SpecSpike == InitSpike /\ [][NextCurve]_vars

\* the first date of the sequence is the center date of the built profile
cvFirstIsCenter ==
    /\ BuiltFor({"spike"}) /\ Len(cvOut) = 3
    /\ resolveCenter(EVENT_PROFILES[cvTag], cvTag, cvDealer, cvDates[1]) = cvDates[1]

\* days between the date at position i and the center date at position 1
cvDist(i) == Abs(cvDates[i] - cvDates[1])

\* C12: for a spike profile, over a date sequence around the center date
\* (also one that crosses 1 January) the multiplier is maximal exactly on the
\* center date; of two dates the one farther in days from the center has the
\* strictly smaller multiplier, and dates at equal distance before and after
\* the center have equal multipliers.
C12_SpikePeakedAtCenter ==
    cvFirstIsCenter =>
        \A i, j \in 1 .. 3 :
            /\ cvDist(i) > 0 => RatLt(cvOut[i], cvOut[1])
            /\ cvDist(i) > cvDist(j) => RatLt(cvOut[i], cvOut[j])
            /\ cvDist(i) = cvDist(j) => cvOut[i] = cvOut[j]

(***************************************************************************)
(* SpecWindow: resolveWindow and the membership test start <= d <= end for *)
(* a profile window and a date, over every day of three years.  The        *)
(* catalog holds no window that wraps the year; the wrapping windows are   *)
(* the example Dec 1 - Jan 31, catalog windows with their bounds swapped,  *)
(* and windows that start or end on 29 February.                           *)
(***************************************************************************)
Window(ws, we) == [present |-> TRUE, start |-> ws, end |-> we]

WrapWindows ==
    { Window(<<12, 1>>, <<1, 31>>), Window(<<9, 15>>, <<6, 15>>),
      Window(<<12, 31>>, <<1, 1>>), Window(<<4, 30>>, <<3, 15>>),
      Window(<<11, 15>>, <<2, 29>>), Window(<<2, 29>>, <<1, 31>>) }

CatalogWindows ==
    { Window(EVENT_PROFILES[t].window.start, EVENT_PROFILES[t].window.end) :
        t \in {u \in EVENT_OPTIONS : EVENT_PROFILES[u].hasWindow} }

WindowDates == makeUTCDate(2023, 1, 1) .. makeUTCDate(2025, 12, 31)

InitWindow ==
    /\ rwWindow \in WrapWindows \cup CatalogWindows
    /\ rwDate \in WindowDates
    /\ rwOut = NoResolved
    /\ rwPc = "in"
    /\ dsIdle /\ cvIdle /\ wiIdle /\ rxIdle /\ fjIdle /\ ldIdle /\ ovIdle

ResolveWindow ==
    /\ rwPc = "in"
    /\ rwOut' = resolveWindow([hasWindow |-> TRUE,
                               window |-> [start |-> rwWindow.start, end |-> rwWindow.end]],
                              rwDate)
    /\ rwPc' = "resolved"
    /\ UNCHANGED <<rwWindow, rwDate, dsVars, cvVars, wiVars, rxVars, fjVars, ldVars, ovVars>>

NextWindow == ResolveWindow

SpecWindow == InitWindow /\ [][NextWindow]_vars

\* <<month, day>> of a date, and the order on such pairs
MonthDay(date) == <<getUTCMonth1(date), getUTCDate(date)>>

MdLe(a, b) == a[1] < b[1] \/ (a[1] = b[1] /\ a[2] <= b[2])

rwWraps == ~MdLe(rwWindow.start, rwWindow.end)

rwInside == rwOut.start <= rwDate /\ rwDate <= rwOut.end

rwClaimedInside ==
    MdLe(rwWindow.start, MonthDay(rwDate)) \/ MdLe(MonthDay(rwDate), rwWindow.end)

\* C7 (as stated): for a window whose end month/day precedes its start
\* month/day, resolveWindow and the test start <= d <= end classify d as
\* inside iff d's month/day is on or after the start month/day or on or
\* before the end month/day, in every year.
C7_WrapInsideIff ==
    (rwPc = "resolved" /\ rwWraps) => (rwInside <=> rwClaimedInside)

\* C7 (amended): the same, for a wrapping window that does not end on
\* 29 February.
C7_WrapInsideIffEndExists ==
    (rwPc = "resolved" /\ rwWraps /\ rwWindow.end # <<2, 29>>) =>
        (rwInside <=> rwClaimedInside)

C7_Witness ==
    /\ rwPc = "resolved"
    /\ rwWindow = Window(<<12, 1>>, <<1, 31>>)
    /\ rwDate = makeUTCDate(2024, 1, 15)
    /\ rwOut.start = makeUTCDate(2023, 12, 1)
    /\ rwOut.end = makeUTCDate(2024, 1, 31)
    /\ rwInside

(***************************************************************************)
(* SpecFetch: one call of fetchJson against a server that may answer, fail *)
(* or stall at each stage: before the response headers, while the body of  *)
(* an error response is read (await res.text()), and while the body of a   *)
(* successful response is read (the promise of res.json() is returned      *)
(* without await, so the finally block clears the timeout first).          *)
(***************************************************************************)
FetchTimeoutMs == 12000

fjTickMs == FetchTimeoutMs \div 12

TimeoutMessage == "Network timeout. Please retry."

\* the texts of non-2xx response bodies
ErrorBodies == {"", "SKU not found"}

InitFetch ==
    /\ fjPc = "idle" /\ fjTimer = TimerCleared /\ fjElapsed = 0 /\ fjResult = ""
    /\ dsIdle /\ cvIdle /\ rwIdle /\ wiIdle /\ rxIdle /\ ldIdle /\ ovIdle

\* lines 32-35: the timeout is armed and fetch() is awaited
FetchJsonStart ==
    /\ fjPc = "idle"
    /\ fjPc' = "headers" /\ fjTimer' = FetchTimeoutMs /\ fjElapsed' = 0 /\ fjResult' = ""
    /\ UNCHANGED <<dsVars, cvVars, rwVars, wiVars, rxVars, ldVars, ovVars>>

\* time passes while the call is pending; an armed timeout fires when due
FetchJsonTick ==
    /\ fjPc \in {"headers", "errorBody", "body"}
    /\ fjTimer # 0
    /\ fjElapsed <= FetchTimeoutMs
    /\ fjElapsed' = fjElapsed + fjTickMs
    /\ fjTimer' = IF fjTimer = TimerCleared THEN TimerCleared ELSE fjTimer - fjTickMs
    /\ UNCHANGED <<fjPc, fjResult, dsVars, cvVars, rwVars, wiVars, rxVars, ldVars, ovVars>>

\* fetch() resolves: a 2xx response returns res.json() and leaves through
\* finally (clearTimeout); any other status awaits res.text()
FetchJsonHeaders ==
    /\ fjPc = "headers"
    /\ \E ok \in BOOLEAN :
          IF ok THEN fjPc' = "body" /\ fjTimer' = TimerCleared
          ELSE fjPc' = "errorBody" /\ UNCHANGED fjTimer
    /\ UNCHANGED <<fjElapsed, fjResult, dsVars, cvVars, rwVars, wiVars, rxVars, ldVars, ovVars>>

\* fetch() or res.text() rejects with a network error
FetchJsonNetworkError ==
    /\ fjPc \in {"headers", "errorBody"}
    /\ fjPc' = "settled" /\ fjResult' = "Failed to fetch" /\ fjTimer' = TimerCleared
    /\ UNCHANGED <<fjElapsed, dsVars, cvVars, rwVars, wiVars, rxVars, ldVars, ovVars>>

\* res.text() resolves: throw new Error(message || "Request failed")
FetchJsonErrorBody ==
    /\ fjPc = "errorBody"
    /\ \E message \in ErrorBodies :
          fjResult' = IF message = "" THEN "Request failed" ELSE message
    /\ fjPc' = "settled" /\ fjTimer' = TimerCleared
    /\ UNCHANGED <<fjElapsed, dsVars, cvVars, rwVars, wiVars, rxVars, ldVars, ovVars>>

\* the promise of res.json() settles: the parsed body, or a SyntaxError
FetchJsonBody ==
    /\ fjPc = "body"
    /\ fjResult' \in {"resolved", "Unexpected end of JSON input"}
    /\ fjPc' = "settled"
    /\ UNCHANGED <<fjTimer, fjElapsed, dsVars, cvVars, rwVars, wiVars, rxVars, ldVars, ovVars>>

\* the timeout fires: controller.abort() rejects the pending fetch() or
\* res.text() with an AbortError, which the catch block rewrites
FetchJsonTimeout ==
    /\ fjTimer = 0
    /\ fjPc \in {"headers", "errorBody"}
    /\ fjPc' = "settled" /\ fjResult' = TimeoutMessage /\ fjTimer' = TimerCleared
    /\ UNCHANGED <<fjElapsed, dsVars, cvVars, rwVars, wiVars, rxVars, ldVars, ovVars>>

NextFetch ==
    \/ FetchJsonStart \/ FetchJsonTick \/ FetchJsonHeaders \/ FetchJsonNetworkError
    \/ FetchJsonErrorBody \/ FetchJsonBody \/ FetchJsonTimeout

SpecFetch == InitFetch /\ [][NextFetch]_vars

\* C16: every fetchJson call settles within the 12 s timeout of its start,
\* whatever the server does, and only a call ended by the timeout rejects with
\* the timeout message.
C16_SettlesWithinTimeout ==
    /\ fjElapsed > FetchTimeoutMs => fjPc \in {"idle", "settled"}
    /\ fjResult = TimeoutMessage => fjElapsed = FetchTimeoutMs

(***************************************************************************)
(* Spec: one invocation of runWhatIf from any state the dashboard can be   *)
(* in: the synchronous demo branch, or the POST to /api/simulate/whatif    *)
(* and its outcome.                                                        *)
(***************************************************************************)
HorizonOptions == {7, 14}

WhatIfPercents == {-30, 0, 10, 40}

Todays ==
    { makeUTCDate(2024, 2, 5), makeUTCDate(2024, 3, 10), makeUTCDate(2024, 10, 20),
      makeUTCDate(2023, 12, 28) }

Dealers == {NoDealer, [present |-> TRUE, id |-> 3]}

\* response bodies of the what-if endpoint: n points whose labels are
\* consecutive ISO days from a start day, all missing, all the same, or
\* consecutive days with the second label missing, with
\* forecast level, level + 37, ... and a band of 5.5 either side; an empty
\* point list; a body without a point list
ServerStarts ==
    { makeUTCDate(2024, 2, 9), makeUTCDate(2024, 3, 14), makeUTCDate(2024, 6, 14),
      makeUTCDate(2024, 10, 24) }

ServerPoint(label, i) ==
    [date |-> label, forecast |-> 1000 + 37 * (i - 1),
     lower |-> 945 + 37 * (i - 1), upper |-> 1055 + 37 * (i - 1)]

ServerBodies ==
    {[hasPoints |-> TRUE, points |-> [i \in 1 .. n |-> ServerPoint(formatDate(s + i - 1), i)]] :
        s \in ServerStarts, n \in 1 .. MaxServerPoints}
    \cup {[hasPoints |-> TRUE, points |-> [i \in 1 .. n |-> ServerPoint(LabelNone, i)]] :
        n \in 1 .. MaxServerPoints}
    \cup {[hasPoints |-> TRUE,
           points |-> [i \in 1 .. n |-> ServerPoint(LabelIso(2024, 3, 20), i)]] :
        n \in 2 .. MaxServerPoints}
    \cup {[hasPoints |-> TRUE,
           points |-> [i \in 1 .. n |->
                         ServerPoint(IF i = 2 THEN LabelNone
                                     ELSE formatDate(makeUTCDate(2024, 3, 14) + i - 1), i)]] :
        n \in 2 .. MaxServerPoints}
    \cup {[hasPoints |-> TRUE, points |-> <<>>]}
    \cup {[hasPoints |-> FALSE, points |-> <<>>]}

Init ==
    /\ DEMO_MODE \in BOOLEAN
    /\ demoMode \in {m \in BOOLEAN : m => DEMO_MODE}
    /\ selectedSku \in {0, 1}
    /\ selectedRegion = "West"
    /\ selectedDealer \in Dealers
    /\ timeHorizon \in HorizonOptions
    /\ whatIfPercent \in WhatIfPercents
    /\ whatIfEvent \in EVENT_OPTIONS \cup {TagUnlisted}
    /\ today \in Todays
    /\ whatIfLoading = FALSE
    /\ whatIfError = ""
    /\ whatIfForecast = NoForecast
    /\ whatIfFetch = NoFetch
    /\ whatIfData = NoData
    /\ dsIdle /\ cvIdle /\ rwIdle /\ rxIdle /\ fjIdle /\ ldIdle /\ ovIdle

\* setWhatIfForecast({...base, points}) of the demo branches
DemoForecast(horizon, percent, eventTag, dealer, now) ==
    [source |-> "demo", hasPoints |-> TRUE,
     points |-> ComposeDemo(horizon, percent, eventTag, dealer, now)]

\* runWhatIf up to its first await (lines 2220-2258)
RunWhatIf ==
    /\ ~whatIfFetch.pending
    /\ whatIfForecast = NoForecast /\ whatIfError = ""
    /\ selectedSku # 0 /\ selectedRegion # ""
    /\ IF demoMode
       THEN /\ whatIfForecast' = DemoForecast(timeHorizon, whatIfPercent, whatIfEvent,
                                              selectedDealer, today)
            /\ whatIfLoading' = FALSE
            /\ whatIfError' = ""
            /\ UNCHANGED whatIfFetch
       ELSE /\ whatIfFetch' = [pending |-> TRUE, horizon |-> timeHorizon,
                               percent |-> whatIfPercent, event |-> whatIfEvent,
                               dealer |-> selectedDealer]
            /\ whatIfLoading' = TRUE
            /\ whatIfError' = ""
            /\ UNCHANGED whatIfForecast
    /\ UNCHANGED <<DEMO_MODE, demoMode, selectedSku, selectedRegion, selectedDealer,
                   timeHorizon, whatIfPercent, whatIfEvent, today, whatIfData,
                   dsVars, cvVars, rwVars, rxVars, fjVars, ldVars, ovVars>>

\* the fetch resolves with the body data (lines 2269-2297, then finally)
WhatIfResolvedWith(data) ==
    /\ whatIfFetch.pending
    /\ whatIfData' = data
    /\ whatIfForecast' =
          IF whatIfFetch.event \in DOMAIN EVENT_PROFILES /\ data.hasPoints
          THEN [source |-> "api", hasPoints |-> TRUE,
                points |-> ComposeFetched(data.points, whatIfFetch.event,
                                          whatIfFetch.dealer, today)]
          ELSE [source |-> "api", hasPoints |-> data.hasPoints, points |-> data.points]
    /\ whatIfFetch' = NoFetch
    /\ whatIfLoading' = FALSE
    /\ UNCHANGED <<DEMO_MODE, demoMode, selectedSku, selectedRegion, selectedDealer,
                   timeHorizon, whatIfPercent, whatIfEvent, today, whatIfError,
                   dsVars, cvVars, rwVars, rxVars, fjVars, ldVars, ovVars>>

WhatIfResolved == \E data \in ServerBodies : WhatIfResolvedWith(data)

\* the messages fetchJson rejects with: the timeout, the default for a non-2xx
\* response with an empty body, and the browser's network failure
FailureMessages == {TimeoutMessage, "Request failed", "Failed to fetch"}

\* mutant: a rejected request is issued again by runWhatIf itself
WhatIfRejected_Retries ==
    /\ whatIfFetch.pending
    /\ IF DEMO_MODE
       THEN /\ whatIfForecast' = DemoForecast(whatIfFetch.horizon, whatIfFetch.percent,
                                              whatIfFetch.event, whatIfFetch.dealer, today)
            /\ UNCHANGED whatIfError
       ELSE /\ whatIfError' \in FailureMessages
            /\ UNCHANGED whatIfForecast
    /\ UNCHANGED whatIfFetch
    /\ whatIfLoading' = TRUE
    /\ UNCHANGED <<DEMO_MODE, demoMode, selectedSku, selectedRegion, selectedDealer,
                   timeHorizon, whatIfPercent, whatIfEvent, today, whatIfData,
                   dsVars, cvVars, rwVars, rxVars, fjVars, ldVars, ovVars>>

\* the fetch rejects: timeout, network failure, non-2xx (lines 2298-2335)
WhatIfRejected ==
    /\ whatIfFetch.pending
    /\ IF DEMO_MODE
       THEN /\ whatIfForecast' = DemoForecast(whatIfFetch.horizon, whatIfFetch.percent,
                                              whatIfFetch.event, whatIfFetch.dealer, today)
            /\ UNCHANGED whatIfError
       ELSE /\ whatIfError' \in FailureMessages
            /\ UNCHANGED whatIfForecast
    /\ whatIfFetch' = NoFetch
    /\ whatIfLoading' = FALSE
    /\ UNCHANGED <<DEMO_MODE, demoMode, selectedSku, selectedRegion, selectedDealer,
                   timeHorizon, whatIfPercent, whatIfEvent, today, whatIfData,
                   dsVars, cvVars, rwVars, rxVars, fjVars, ldVars, ovVars>>

Next == RunWhatIf \/ WhatIfResolved \/ WhatIfRejected

Spec == Init /\ [][Next]_vars

\* the inputs of the composition that produced whatIfForecast
wiBase == buildDemoPoints(timeHorizon, 120, today)

wiBaseCurve ==
    LET base == wiBase
    IN  buildEventMultiplier(whatIfEvent,
                             [isArray |-> TRUE,
                              items |-> Array([i \in 1 .. Len(base) |-> base[i].date])],
                             selectedDealer, getUTCFullYear(today))

wiShift == Rat(100 + whatIfPercent, 100)

wiFetchedCurve ==
    buildEventMultiplier(whatIfEvent,
                         [isArray |-> TRUE,
                          items |-> resolvePointDates(whatIfData.points, today)],
                         selectedDealer, getUTCFullYear(today))

\* curve[i] / mean(curve), for every position of a curve
MeanNormalized(curve) ==
    LET total == SumCurve(curve, Len(curve))
    IN  Array([i \in 1 .. Len(curve) |-> RatDiv(RatMul(curve[i], RatInt(Len(curve))), total)])

\* every value of output point out is the value of input point in scaled by r
\* and rounded to one decimal
ScaledBy(out, in, r) ==
    /\ out.forecast = RoundScaled(in.forecast, r)
    /\ out.lower = RoundScaled(in.lower, r)
    /\ out.upper = RoundScaled(in.upper, r)

FromDemo == whatIfForecast.source = "demo"

FromFetch == whatIfForecast.source = "api" /\ whatIfData.hasPoints

\* C3 (as stated): under the normalized policy (fetched baseline, known tag)
\* every output forecast, lower and upper equals the baseline value times
\* (1 + p/100) * curve[i] / mean(curve), rounded to one decimal.
C3_NormalizedWithShift ==
    (FromFetch /\ whatIfEvent \in EVENT_OPTIONS) =>
        LET normalized == MeanNormalized(wiFetchedCurve)
        IN  /\ Len(whatIfForecast.points) = Len(whatIfData.points)
            /\ Len(normalized) = Len(whatIfData.points)
            /\ \A i \in 1 .. Len(whatIfData.points) :
                  ScaledBy(whatIfForecast.points[i], whatIfData.points[i],
                           RatMul(wiShift, normalized[i]))

\* C3 (amended): under the normalized policy every output forecast, lower and
\* upper equals the fetched value times curve[i] / mean(curve), rounded to one
\* decimal; the percent shift is sent with the request and not applied again.
C3_NormalizedShapeOnly ==
    (FromFetch /\ whatIfEvent \in EVENT_OPTIONS) =>
        LET normalized == MeanNormalized(wiFetchedCurve)
        IN  /\ Len(whatIfForecast.points) = Len(whatIfData.points)
            /\ Len(normalized) = Len(whatIfData.points)
            /\ \A i \in 1 .. Len(whatIfData.points) :
                  ScaledBy(whatIfForecast.points[i], whatIfData.points[i], normalized[i])

C3_Witness ==
    /\ FromFetch /\ whatIfEvent = TagBoom /\ whatIfPercent = 10
    /\ Len(whatIfData.points) = 3
    /\ whatIfForecast.points[1].forecast < whatIfData.points[1].forecast
    /\ whatIfForecast.points[3].forecast > whatIfData.points[3].forecast

\* C4: under the direct policy (locally synthesized baseline) every output
\* forecast, lower and upper equals round1(baseline value * (1 + p/100) *
\* curve[i]), the curve aligned by position to the baseline dates.
C4_DirectComposition ==
    (FromDemo /\ whatIfEvent \in EVENT_OPTIONS) =>
        LET base == wiBase
            curve == wiBaseCurve
        IN  /\ Len(whatIfForecast.points) = Len(base)
            /\ Len(curve) = Len(base)
            /\ \A i \in 1 .. Len(base) :
                  ScaledBy(whatIfForecast.points[i], base[i], RatMul(wiShift, curve[i]))

C4_Witness ==
    /\ FromDemo /\ whatIfEvent = TagBoom /\ whatIfPercent = 10
    /\ wiBaseCurve[1] = One
    /\ wiBaseCurve[Len(wiBase)] # One
    /\ whatIfForecast.points[Len(wiBase)].upper
          # RoundScaled(wiBase[Len(wiBase)].upper, wiShift)

\* C5 (as stated): for an unknown event tag (empty curve) composition is the
\* flat percent shift under either policy: forecast[i] =
\* round1(baseline[i] * (1 + p/100)), and no error is raised.
C5_UnknownTagFlatShift ==
    (whatIfEvent \notin EVENT_OPTIONS /\ (FromDemo \/ FromFetch)) =>
        LET base == IF FromDemo THEN wiBase ELSE whatIfData.points
        IN  /\ whatIfError = ""
            /\ Len(whatIfForecast.points) = Len(base)
            /\ \A i \in 1 .. Len(base) :
                  whatIfForecast.points[i].forecast = RoundScaled(base[i].forecast, wiShift)

\* C5 (amended): for an unknown event tag no error is raised; under the
\* direct policy forecast[i] = round1(baseline[i] * (1 + p/100)); under the
\* normalized policy the fetched points are stored unchanged.
C5_UnknownTagNoCurve ==
    (whatIfEvent \notin EVENT_OPTIONS /\ (FromDemo \/ FromFetch)) =>
        LET base == wiBase
        IN  /\ whatIfError = ""
            /\ FromDemo =>
                  /\ Len(whatIfForecast.points) = Len(base)
                  /\ \A i \in 1 .. Len(base) :
                        ScaledBy(whatIfForecast.points[i], base[i], wiShift)
            /\ FromFetch => whatIfForecast.points = whatIfData.points

C5_Witness ==
    /\ whatIfEvent = TagUnlisted /\ FromDemo /\ whatIfPercent = 10
    /\ Len(whatIfForecast.points) = 7
    /\ wiBase[2].forecast = 1226
    /\ whatIfForecast.points[2].forecast = 1349

\* C13: determinism: the what-if composition of the same fetched baseline
\* points, event tag and dealer gives the same output points whatever the day
\* of the wall clock at which it is invoked (also across a change of year).
C13_SameInputsSameOutput ==
    (FromFetch /\ whatIfEvent \in EVENT_OPTIONS) =>
        \A now \in Todays :
            ComposeFetched(whatIfData.points, whatIfEvent, selectedDealer, now)
                = whatIfForecast.points

\* the date labels of the fetched points, and of the stored output points
wiLabels == [i \in 1 .. Len(whatIfData.points) |-> whatIfData.points[i].date]

wiOutLabels == [i \in 1 .. Len(whatIfForecast.points) |-> whatIfForecast.points[i].date]

wiAllBlank == \A i \in 1 .. Len(wiLabels) : ~Truthy(wiLabels[i])

wiAllSame == \A i \in 1 .. Len(wiLabels) : Truthy(wiLabels[i]) /\ wiLabels[i] = wiLabels[1]

\* C19: when the labels of a non-empty point sequence are all absent or
\* blank, or all the same value, resolvePointDates returns as many labels:
\* consecutive days from tomorrow (UTC), element i being today + (i + 1) days.
C19_SequenceFallback ==
    (FromFetch /\ whatIfEvent \in EVENT_OPTIONS
        /\ (wiAllBlank \/ (Len(wiLabels) >= 2 /\ wiAllSame))) =>
        /\ Len(wiOutLabels) = Len(wiLabels)
        /\ \A i \in 1 .. Len(wiLabels) : wiOutLabels[i] = formatDate(today + ((i - 1) + 1))

C19_Witness ==
    /\ FromFetch /\ whatIfEvent = TagSummer /\ today = makeUTCDate(2024, 3, 10)
    /\ wiLabels = <<LabelIso(2024, 3, 20), LabelIso(2024, 3, 20)>>
    /\ wiOutLabels = <<LabelIso(2024, 3, 11), LabelIso(2024, 3, 12)>>

\* C20: for a non-empty point sequence whose labels are not all absent,
\* blank or duplicated (also a single point with a valid date, and a sequence
\* with only some labels missing) resolvePointDates returns the supplied
\* labels unchanged and in order.
C20_MeaningfulLabelsKept ==
    (FromFetch /\ whatIfEvent \in EVENT_OPTIONS
        /\ ~wiAllBlank /\ (Len(wiLabels) = 1 \/ ~wiAllSame)) =>
        wiOutLabels = wiLabels


(***************************************************************************)
(* SpecReactive: the mounted dashboard.  The base load settles, the user   *)
(* changes simulation inputs and clicks Run, time passes, the debounce     *)
(* effect (lines 2338-2352) arms and clears its timer, runWhatIf runs with *)
(* the state of the render whose closure is invoked, and the what-if       *)
(* request resolves or rejects.  The user changes inputs only while no     *)
(* request is in flight and clicks Run only while no timer is pending, so  *)
(* that one request slot is enough.                                        *)
(***************************************************************************)
DebounceMs == 250

rxTickMs == DebounceMs \div 2

MaxActions == 2  \* input changes and clicks of the user per behaviour

RxSkus == {1, 2}

RxRegions == {"West", "North"}

RxDealers == {[present |-> TRUE, id |-> 1], [present |-> TRUE, id |-> 3]}

RxHorizons == {7, 30}

RxPercents == {10, 40}

RxEvents == {TagMonsoon, TagAnniversary}

\* the one response body of the what-if endpoint used here
RxBodies ==
    {[hasPoints |-> TRUE,
      points |-> [i \in 1 .. 2 |-> ServerPoint(formatDate(makeUTCDate(2024, 3, 14) + i - 1), i)]]}

\* useState initial values (lines 2000-2029) on the day the page is opened
InitReactive ==
    /\ DEMO_MODE \in BOOLEAN
    /\ demoMode = FALSE
    /\ selectedSku = 0 /\ selectedRegion = "" /\ selectedDealer = NoDealer
    /\ timeHorizon = 30 /\ whatIfPercent = 10 /\ whatIfEvent = TagMonsoon
    /\ today = makeUTCDate(2024, 3, 10)
    /\ whatIfLoading = FALSE /\ whatIfError = "" /\ whatIfForecast = NoForecast
    /\ whatIfFetch = NoFetch /\ whatIfData = NoData
    /\ baseLoading = TRUE /\ whatIfTimerRef = 0 /\ timers = {} /\ sinceChange = 0
    /\ lastRun = NoRun /\ burstRuns = 0 /\ userActions = 0
    /\ dsIdle /\ cvIdle /\ rwIdle /\ fjIdle /\ ldIdle /\ ovIdle

\* the state the current render closes over
CurrentInputs ==
    [sku |-> selectedSku, region |-> selectedRegion, dealer |-> selectedDealer,
     horizon |-> timeHorizon, percent |-> whatIfPercent, event |-> whatIfEvent,
     demoMode |-> demoMode]

\* the effect after a render in which one of its dependencies changed: the
\* cleanup of the previous run, then the body with the new render's state c
EffectRuns(c, loading) ==
    LET kept == {t \in timers : t.id # whatIfTimerRef}
        id == IF whatIfTimerRef = 1 THEN 2 ELSE 1
    IN  IF c.sku = 0 \/ c.region = "" \/ loading
        THEN timers' = kept /\ UNCHANGED whatIfTimerRef
        ELSE /\ timers' = kept \cup {[id |-> id, left |-> DebounceMs, run |-> c]}
             /\ whatIfTimerRef' = id

\* runWhatIf of the render with state c (lines 2220-2258), with a SKU and a
\* region selected
InvokeRunWhatIf(c, byTimer) ==
    /\ lastRun' = [started |-> TRUE, byTimer |-> byTimer,
                   after |-> IF byTimer THEN sinceChange ELSE 0, inputs |-> c]
    /\ IF c.demoMode
       THEN /\ whatIfForecast' = DemoForecast(c.horizon, c.percent, c.event, c.dealer, today)
            /\ whatIfLoading' = FALSE
            /\ UNCHANGED whatIfFetch
       ELSE /\ whatIfFetch' = [pending |-> TRUE, horizon |-> c.horizon, percent |-> c.percent,
                               event |-> c.event, dealer |-> c.dealer]
            /\ whatIfLoading' = TRUE
            /\ UNCHANGED whatIfForecast
    /\ whatIfError' = ""
    /\ UNCHANGED whatIfData

\* loadBase settles (lines 2060-2104): lists from the API, the demo fixtures,
\* or nothing to select
LoadBaseSettles ==
    /\ baseLoading
    /\ \E outcome \in {"api", "demo", "none"} :
          /\ outcome = "demo" => DEMO_MODE
          /\ outcome = "none" => ~DEMO_MODE
          /\ demoMode' = (outcome = "demo")
          /\ IF outcome = "none"
             THEN UNCHANGED <<selectedSku, selectedRegion, selectedDealer>>
             ELSE /\ selectedSku' = 1 /\ selectedRegion' = "West"
                  /\ selectedDealer' = [present |-> TRUE, id |-> 1]
    /\ baseLoading' = FALSE
    /\ sinceChange' = 0 /\ burstRuns' = 0
    /\ UNCHANGED <<DEMO_MODE, timeHorizon, whatIfPercent, whatIfEvent, today, whatIfLoading,
                   whatIfError, whatIfForecast, whatIfFetch, whatIfData, lastRun,
                   userActions, dsVars, cvVars, rwVars, fjVars, ldVars, ovVars>>
    /\ EffectRuns(CurrentInputs', FALSE)

\* what every change of an input by the user has in common
UserChangesInput ==
    /\ ~whatIfFetch.pending
    /\ userActions < MaxActions
    /\ userActions' = userActions + 1
    /\ sinceChange' = 0 /\ burstRuns' = 0
    /\ UNCHANGED <<DEMO_MODE, demoMode, today, whatIfLoading, whatIfError, whatIfForecast,
                   whatIfFetch, whatIfData, baseLoading, lastRun, dsVars, cvVars, rwVars,
                   fjVars, ldVars, ovVars>>

\* line 1439, once the lists are loaded
ChangeSku ==
    /\ ~baseLoading /\ selectedSku # 0
    /\ \E sku \in RxSkus \ {selectedSku} : selectedSku' = sku
    /\ UserChangesInput
    /\ UNCHANGED <<selectedRegion, selectedDealer, timeHorizon, whatIfPercent, whatIfEvent>>
    /\ EffectRuns(CurrentInputs', baseLoading)

\* line 1454
ChangeRegion ==
    /\ ~baseLoading /\ selectedRegion # ""
    /\ \E region \in RxRegions \ {selectedRegion} : selectedRegion' = region
    /\ UserChangesInput
    /\ UNCHANGED <<selectedSku, selectedDealer, timeHorizon, whatIfPercent, whatIfEvent>>
    /\ EffectRuns(CurrentInputs', baseLoading)

\* line 1470: selectedDealer is not among the effect's dependencies, so the
\* effect does not run and a pending timer keeps its closure
ChangeDealer ==
    /\ ~baseLoading /\ selectedDealer.present
    /\ \E dealer \in RxDealers \ {selectedDealer} : selectedDealer' = dealer
    /\ UserChangesInput
    /\ UNCHANGED <<selectedSku, selectedRegion, timeHorizon, whatIfPercent, whatIfEvent,
                   timers, whatIfTimerRef>>

\* lines 900, 928, 1524, 1553
ChangeHorizon ==
    /\ \E horizon \in RxHorizons \ {timeHorizon} : timeHorizon' = horizon
    /\ UserChangesInput
    /\ UNCHANGED <<selectedSku, selectedRegion, selectedDealer, whatIfPercent, whatIfEvent>>
    /\ EffectRuns(CurrentInputs', baseLoading)

\* lines 947, 1572
ChangePercent ==
    /\ \E percent \in RxPercents \ {whatIfPercent} : whatIfPercent' = percent
    /\ UserChangesInput
    /\ UNCHANGED <<selectedSku, selectedRegion, selectedDealer, timeHorizon, whatIfEvent>>
    /\ EffectRuns(CurrentInputs', baseLoading)

\* lines 955, 1580
ChangeEvent ==
    /\ \E tag \in RxEvents \ {whatIfEvent} : whatIfEvent' = tag
    /\ UserChangesInput
    /\ UNCHANGED <<selectedSku, selectedRegion, selectedDealer, timeHorizon, whatIfPercent>>
    /\ EffectRuns(CurrentInputs', baseLoading)

\* time passes; a timer that is due fires before more time passes
RxTick ==
    /\ \A t \in timers : t.left > 0
    /\ timers # {} \/ sinceChange <= DebounceMs
    /\ sinceChange' = Min(sinceChange + rxTickMs, DebounceMs + rxTickMs)
    /\ timers' = {[t EXCEPT !.left = @ - rxTickMs] : t \in timers}
    /\ UNCHANGED <<wiVars, baseLoading, whatIfTimerRef, lastRun, burstRuns, userActions,
                   dsVars, cvVars, rwVars, fjVars, ldVars, ovVars>>

\* lines 2344-2346: the timeout callback calls the runWhatIf of its render
WhatIfTimerFires ==
    /\ \E t \in timers :
          /\ t.left = 0
          /\ timers' = timers \ {t}
          /\ InvokeRunWhatIf(t.run, TRUE)
    /\ burstRuns' = burstRuns + 1
    /\ UNCHANGED <<DEMO_MODE, demoMode, selectedSku, selectedRegion, selectedDealer,
                   timeHorizon, whatIfPercent, whatIfEvent, today, baseLoading,
                   whatIfTimerRef, sinceChange, userActions, dsVars, cvVars, rwVars, fjVars, ldVars, ovVars>>

\* lines 964, 975, 1589, 1600: the Run button and the retry of the error
\* panel call the runWhatIf of the current render
ClickRunWhatIf ==
    /\ ~whatIfLoading /\ ~baseLoading
    /\ timers = {}
    /\ selectedSku # 0 /\ selectedRegion # ""
    /\ userActions < MaxActions
    /\ userActions' = userActions + 1
    /\ InvokeRunWhatIf(CurrentInputs, FALSE)
    /\ UNCHANGED <<DEMO_MODE, demoMode, selectedSku, selectedRegion, selectedDealer,
                   timeHorizon, whatIfPercent, whatIfEvent, today, baseLoading,
                   whatIfTimerRef, timers, sinceChange, burstRuns,
                   dsVars, cvVars, rwVars, fjVars, ldVars, ovVars>>

RxWhatIfResolved == \E data \in RxBodies : WhatIfResolvedWith(data)

NextReactive ==
    \/ LoadBaseSettles
    \/ ChangeSku \/ ChangeRegion \/ ChangeDealer
    \/ ChangeHorizon \/ ChangePercent \/ ChangeEvent
    \/ RxTick \/ WhatIfTimerFires \/ ClickRunWhatIf
    \/ RxWhatIfResolved \/ WhatIfRejected

SpecReactive == InitReactive /\ [][NextReactive]_vars

\* a SKU and a region are selected, the base load has finished, the inputs
\* have been quiet for longer than the debounce delay, and no timer is pending
rxQuiescent ==
    /\ selectedSku # 0 /\ selectedRegion # "" /\ ~baseLoading
    /\ sinceChange > DebounceMs /\ timers = {}

\* C14: a burst of input changes less than 250 ms apart makes the debounce
\* effect start exactly one what-if computation, 250 ms after the last change;
\* at most one debounce timer is pending at every moment.
C14_DebounceCoalescing ==
    /\ Cardinality(timers) <= 1
    /\ burstRuns <= 1
    /\ (lastRun.started /\ lastRun.byTimer) => lastRun.after = DebounceMs
    /\ rxQuiescent => burstRuns = 1

\* C15: after a change of an input that the computation reads (percent, event
\* tag, horizon, SKU, region, dealer) followed by quiescence, a what-if
\* computation with the latest input values has been started.
C15_RecomputesWithLatestInputs ==
    rxQuiescent => (lastRun.started /\ lastRun.inputs = CurrentInputs)

\* C17 (as stated): when the what-if request fails, runWhatIf sets whatIfError
\* to the failure message, substitutes no result, issues no further request and
\* arms no timer.
C17_FailureSurfaced ==
    [][WhatIfRejected =>
          /\ whatIfError' \in FailureMessages
          /\ whatIfForecast' = whatIfForecast
          /\ ~whatIfFetch'.pending /\ ~whatIfLoading'
          /\ timers' = timers]_vars

\* C17 (amended): when the what-if request fails and the build's DEMO_MODE
\* flag is off, runWhatIf sets whatIfError to the failure message and
\* substitutes no result; when the flag is on it stores the locally synthesized
\* demo what-if and sets no error.  Either way it issues no further request
\* and arms no timer.
C17_FailureSurfacedUnlessDemo ==
    [][WhatIfRejected =>
          /\ IF DEMO_MODE
             THEN whatIfError' = "" /\ whatIfForecast'.source = "demo"
             ELSE whatIfError' \in FailureMessages /\ whatIfForecast' = whatIfForecast
          /\ ~whatIfFetch'.pending /\ ~whatIfLoading'
          /\ timers' = timers]_vars

\* a request has failed in a build without DEMO_MODE: the error is shown next
\* to the result of an earlier request
C17_Witness ==
    /\ ~DEMO_MODE /\ lastRun.started
    /\ whatIfError \in FailureMessages
    /\ whatIfForecast.source = "api"
    /\ ~whatIfFetch.pending /\ ~whatIfLoading

(***************************************************************************)
(* The normalized policy and the band of a point, observed on the what-if  *)
(* results of Spec.                                                        *)
(***************************************************************************)
\* curve.reduce((sum, value) => sum + value, 0) / curve.length
Average(curve) == RatDiv(SumCurve(curve, Len(curve)), RatInt(Len(curve)))

wiUniformCurve ==
    LET curve == wiFetchedCurve
    IN  /\ Len(curve) > 0
        /\ \A i \in 1 .. Len(curve) : curve[i] = curve[1]
        /\ ~IsNaN(curve[1]) /\ curve[1] # Zero

\* C21: whenever the mean of a non-empty curve is a non-zero number, the
\* normalized curve (curve[i] / mean) has average 1.
C21_NormalizedAveragesOne ==
    (FromFetch /\ whatIfEvent \in EVENT_OPTIONS) =>
        LET curve == wiFetchedCurve
        IN  (Len(curve) > 0 /\ ~IsNaN(Average(curve)) /\ Average(curve) # Zero)
                => Average(NormalizedCurve(curve)) = One

\* a fetched series whose curve is not flat has been normalized
C21_Witness ==
    /\ FromFetch /\ whatIfEvent \in EVENT_OPTIONS
    /\ LET curve == wiFetchedCurve
       IN  /\ Len(curve) >= 2
           /\ curve[1] # curve[2]
           /\ Average(curve) # One

\* C22: the normalization never divides by zero: with a zero mean (an empty
\* curve) the divisor is 1, and every normalized multiplier and every output
\* forecast, lower and upper is a number.
C22_NormalizationIsFinite ==
    (FromFetch /\ whatIfEvent \in EVENT_OPTIONS) =>
        LET normalized == NormalizedCurve(wiFetchedCurve)
        IN  /\ \A i \in 1 .. Len(normalized) : ~IsNaN(normalized[i])
            /\ Len(whatIfForecast.points) = Len(whatIfData.points)
            /\ \A i \in 1 .. Len(whatIfForecast.points) :
                  /\ whatIfForecast.points[i].forecast # NaNTenths
                  /\ whatIfForecast.points[i].lower # NaNTenths
                  /\ whatIfForecast.points[i].upper # NaNTenths

\* a response with an empty point list has been composed: the curve is empty,
\* its mean is 0 / Math.max(1, 0) = 0 and the divisor is 1
C22_Witness ==
    /\ FromFetch /\ whatIfEvent \in EVENT_OPTIONS
    /\ Len(whatIfData.points) = 0
    /\ wiFetchedCurve = <<>>
    /\ whatIfForecast.points = <<>>

\* C23: under the normalized policy a uniform non-zero curve leaves every
\* baseline forecast, lower and upper unchanged.
C23_UniformCurveKeepsBaseline ==
    (FromFetch /\ whatIfEvent \in EVENT_OPTIONS /\ wiUniformCurve) =>
        /\ Len(whatIfForecast.points) = Len(whatIfData.points)
        /\ \A i \in 1 .. Len(whatIfData.points) :
              /\ whatIfForecast.points[i].forecast = whatIfData.points[i].forecast
              /\ whatIfForecast.points[i].lower = whatIfData.points[i].lower
              /\ whatIfForecast.points[i].upper = whatIfData.points[i].upper

\* a step event whose window covers every date of the series: the curve is
\* 1 + peakImpact throughout, and the first baseline forecast is 100.0
C23_Witness ==
    /\ FromFetch /\ wiUniformCurve
    /\ whatIfEvent \in EVENT_OPTIONS /\ EVENT_PROFILES[whatIfEvent].kind = "step"
    /\ Len(whatIfData.points) >= 2
    /\ wiFetchedCurve[1] = RatAdd(One, Impact(EVENT_PROFILES[whatIfEvent]))
    /\ whatIfData.points[1].forecast = 1000

wiBandOrdered(points) ==
    \A i \in 1 .. Len(points) :
        points[i].lower <= points[i].forecast /\ points[i].forecast <= points[i].upper

\* C30: if every baseline point satisfies lower <= forecast <= upper, then so
\* does every point of the what-if result, under either policy.
C30_BandOrderPreserved ==
    /\ (FromDemo /\ wiBandOrdered(wiBase)) => wiBandOrdered(whatIfForecast.points)
    /\ (FromFetch /\ wiBandOrdered(whatIfData.points)) => wiBandOrdered(whatIfForecast.points)

\* a fetched series has been scaled by a curve that is not flat, with a
\* factor that moves the forecast of a point past its fetched band
C30_Witness ==
    /\ FromFetch /\ whatIfEvent \in EVENT_OPTIONS
    /\ wiBandOrdered(whatIfData.points)
    /\ \E i \in 1 .. Len(whatIfForecast.points) :
          whatIfForecast.points[i].forecast > whatIfData.points[i].upper

(***************************************************************************)
(* Spike profiles without an explicit center, and the range of the         *)
(* multipliers, observed on the curves of SpecCurve.                       *)
(***************************************************************************)
\* the built profile is a spike without center and no per-dealer center can
\* be derived
cvNoCenter ==
    /\ BuiltFor({"spike"})
    /\ ~EVENT_PROFILES[cvTag].hasCenter
    /\ ~cvDealer.present \/ ~IsAnniversaryTag(cvTag)

\* C25: a spike profile with neither an explicit center nor a resolvable
\* dealer context gives a curve of the length of the date sequence whose
\* multipliers are all exactly 1.
C25_NoCenterNoImpact ==
    cvNoCenter =>
        /\ Len(cvOut) = Len(cvLabels.items)
        /\ \A i \in 1 .. Len(cvOut) : cvOut[i] = One

\* Dealer Anniversary built without a dealer over dates that a dealer's
\* anniversary would lift (2024-02-10 for dealer 1, 2024-04-05 for dealer 3)
C25_Witness ==
    /\ cvNoCenter
    /\ cvLabels.items = <<LabelIso(2024, 2, 10), LabelIso(2024, 4, 5)>>
    /\ cvOut = <<One, One>>

\* C29: every multiplier built for a catalog profile is a number between 1 and
\* 1 + peakImpact (between 1 + peakImpact and 1 for a negative peakImpact),
\* hence strictly positive, for every label: missing, unparseable, or an
\* invalid Date object.
C29_MultiplierInRange ==
    BuiltFor({"spike", "step", "ramp", "dip"}) =>
        \A i \in 1 .. Len(cvOut) :
            /\ ~IsNaN(cvOut[i])
            /\ RatLe(RatMin(One, cvPeak), cvOut[i])
            /\ RatLe(cvOut[i], RatMax(One, cvPeak))
            /\ RatLt(Zero, cvOut[i])

(***************************************************************************)
(* SpecAnniversary: Dealer Anniversary built for one date, the 15th of a   *)
(* month or a day near it, and a dealer with a numeric id.                 *)
(***************************************************************************)
MaxDealerId == 24

AnniversaryDates ==
    {makeUTCDate(y, m, 15) + a : y \in {2024, 2025}, m \in 1 .. 12, a \in {0 - 3, 0, 2}}

InitAnniversary ==
    /\ cvTag = TagAnniversary
    /\ cvLabels \in {[isArray |-> TRUE, items |-> <<formatDate(d)>>] : d \in AnniversaryDates}
    /\ cvDealer \in {[present |-> TRUE, id |-> id] : id \in 0 .. MaxDealerId}
    /\ cvNowYear = 2024
    /\ cvOut = <<>>
    /\ cvPc = "in"
    /\ dsIdle /\ rwIdle /\ wiIdle /\ rxIdle /\ fjIdle /\ ldIdle /\ ovIdle

SpecAnniversary == InitAnniversary /\ [][NextCurve]_vars

\* day 15 of month (id mod 12) + 1 in the year of the date
cvClaimedCenter == makeUTCDate(getUTCFullYear(cvDates[1]), (cvDealer.id % 12) + 1, 15)

\* C24: for the anniversary tag and a dealer with numeric id (0 and multiples
\* of 12 included) the spike is centered on day 15 of month (id mod 12) + 1 of
\* the date's year: the multiplier of a date is 1 + peakImpact * gauss(days
\* between the date and that center).
C24_AnniversaryCenter ==
    (cvPc = "built") =>
        cvOut = <<RatAdd(One, RatMul(Impact(EVENT_PROFILES[cvTag]),
                                     Gauss(EVENT_PROFILES[cvTag].widthDays,
                                           cvDates[1] - cvClaimedCenter)))>>

(***************************************************************************)
(* SpecLoads: the build flag computed from the environment, and the five   *)
(* loads of the dashboard (base lists, forecast, rebalance, dealer data,   *)
(* what-if), each settling with data, with an empty result, or failing.    *)
(***************************************************************************)
\* mutant: a development build keeps demo mode whatever the flag says
DemoModeOf_DevelopmentWins(flag, mode) == flag = "1" \/ mode = "development"

\* line 29
DemoModeOf(flag, mode) == flag = "1" \/ (flag # "0" /\ mode = "development")

DemoFlags == {"0", "1", ""}

EnvModes == {"development", "production"}

LoadOutcomes == {"data", "empty", "failed"}

\* err.message of a failed fetchJson
LoadFailure == "Failed to fetch"

\* the response bodies of the what-if endpoint used here: two points, or none
LdBodies == RxBodies \cup {[hasPoints |-> TRUE, points |-> <<>>]}

\* the page as it mounts: useState initial values, loadBase already started
InitLoads ==
    /\ demoFlag \in DemoFlags /\ envMode \in EnvModes
    /\ DEMO_MODE = DemoModeOf(demoFlag, envMode)
    /\ demoMode = FALSE
    /\ selectedSku = 0 /\ selectedRegion = "" /\ selectedDealer = NoDealer
    /\ timeHorizon = 30 /\ whatIfPercent = 10 /\ whatIfEvent = TagMonsoon
    /\ today = makeUTCDate(2024, 3, 10)
    /\ whatIfLoading = FALSE /\ whatIfError = "" /\ whatIfForecast = NoForecast
    /\ whatIfFetch = NoFetch /\ whatIfData = NoData
    /\ baseLoading = TRUE /\ whatIfTimerRef = 0 /\ timers = {} /\ sinceChange = 0
    /\ lastRun = NoRun /\ burstRuns = 0 /\ userActions = 0
    /\ baseData = "none" /\ baseError = ""
    /\ forecastData = "none" /\ forecastError = ""
    /\ rebalanceData = "none" /\ rebalanceError = ""
    /\ dealerData = "none" /\ dealerError = "" /\ ldPending = {}
    /\ dsIdle /\ cvIdle /\ rwIdle /\ fjIdle /\ ovIdle

\* loadBase from the await on (lines 2050-2104)
LoadBaseSettlesAs(outcome) ==
    /\ baseLoading
    /\ baseLoading' = FALSE
    /\ IF outcome = "failed"
       THEN IF DEMO_MODE
            THEN /\ demoMode' = TRUE /\ baseData' = "demo"
                 /\ selectedSku' = 1 /\ selectedRegion' = "West"
                 /\ selectedDealer' = [present |-> TRUE, id |-> 1]
                 /\ UNCHANGED baseError
            ELSE /\ baseError' = LoadFailure
                 /\ UNCHANGED <<demoMode, baseData, selectedSku, selectedRegion,
                                selectedDealer>>
       ELSE LET hasData == outcome = "data"
                useDemo == DEMO_MODE /\ ~hasData
            IN  /\ demoMode' = useDemo
                /\ baseData' = IF useDemo THEN "demo" ELSE IF hasData THEN "api" ELSE "empty"
                /\ IF useDemo \/ hasData
                   THEN /\ selectedSku' = 1 /\ selectedRegion' = "West"
                        /\ selectedDealer' = [present |-> TRUE, id |-> 1]
                   ELSE UNCHANGED <<selectedSku, selectedRegion, selectedDealer>>
                /\ UNCHANGED baseError
    /\ UNCHANGED <<DEMO_MODE, timeHorizon, whatIfPercent, whatIfEvent, today, whatIfLoading,
                   whatIfError, whatIfForecast, whatIfFetch, whatIfData,
                   whatIfTimerRef, timers, sinceChange, lastRun, burstRuns, userActions,
                   demoFlag, envMode, forecastData, forecastError, rebalanceData,
                   rebalanceError, dealerData, dealerError, ldPending,
                   dsVars, cvVars, rwVars, fjVars, ovVars>>

LoadBaseSettlesLd == \E outcome \in LoadOutcomes : LoadBaseSettlesAs(outcome)

\* "Retry loading data" (lines 1421-1428): loadBase up to its await (lines 2048-2049)
ReloadBase ==
    /\ ~baseLoading /\ baseError # ""
    /\ baseLoading' = TRUE /\ baseError' = ""
    /\ UNCHANGED <<wiVars, whatIfTimerRef, timers, sinceChange, lastRun, burstRuns,
                   userActions, demoFlag, envMode, baseData, forecastData, forecastError,
                   rebalanceData, rebalanceError, dealerData, dealerError, ldPending,
                   dsVars, cvVars, rwVars, fjVars, ovVars>>

\* loadForecast up to its await (lines 2111-2122)
LoadForecast ==
    /\ selectedSku # 0 /\ selectedRegion # ""
    /\ "forecast" \notin ldPending
    /\ forecastError' = ""
    /\ IF demoMode
       THEN forecastData' = "demo" /\ UNCHANGED ldPending
       ELSE ldPending' = ldPending \cup {"forecast"} /\ UNCHANGED forecastData
    /\ UNCHANGED <<wiVars, rxVars, demoFlag, envMode, baseData, baseError, rebalanceData,
                   rebalanceError, dealerData, dealerError,
                   dsVars, cvVars, rwVars, fjVars, ovVars>>

\* loadForecast from the await on (lines 2122-2139)
ForecastSettlesAs(outcome) ==
    /\ "forecast" \in ldPending
    /\ ldPending' = ldPending \ {"forecast"}
    /\ IF outcome = "failed"
       THEN IF DEMO_MODE
            THEN forecastData' = "demo" /\ UNCHANGED forecastError
            ELSE forecastError' = LoadFailure /\ UNCHANGED forecastData
       ELSE /\ forecastData' = IF outcome = "data" THEN "api" ELSE "empty"
            /\ UNCHANGED forecastError
    /\ UNCHANGED <<wiVars, rxVars, demoFlag, envMode, baseData, baseError, rebalanceData,
                   rebalanceError, dealerData, dealerError,
                   dsVars, cvVars, rwVars, fjVars, ovVars>>

ForecastSettles == \E outcome \in LoadOutcomes : ForecastSettlesAs(outcome)

\* loadRebalance up to its await (lines 2146-2156)
LoadRebalance ==
    /\ selectedSku # 0 /\ selectedRegion # ""
    /\ "rebalance" \notin ldPending
    /\ rebalanceError' = ""
    /\ IF demoMode
       THEN rebalanceData' = "demo" /\ UNCHANGED ldPending
       ELSE ldPending' = ldPending \cup {"rebalance"} /\ UNCHANGED rebalanceData
    /\ UNCHANGED <<wiVars, rxVars, demoFlag, envMode, baseData, baseError, forecastData,
                   forecastError, dealerData, dealerError,
                   dsVars, cvVars, rwVars, fjVars, ovVars>>

\* loadRebalance from the await on (lines 2156-2172)
RebalanceSettlesAs(outcome) ==
    /\ "rebalance" \in ldPending
    /\ ldPending' = ldPending \ {"rebalance"}
    /\ IF outcome = "failed"
       THEN IF DEMO_MODE
            THEN rebalanceData' = "demo" /\ UNCHANGED rebalanceError
            ELSE rebalanceError' = LoadFailure /\ UNCHANGED rebalanceData
       ELSE /\ rebalanceData' = IF outcome = "data" THEN "api" ELSE "empty"
            /\ UNCHANGED rebalanceError
    /\ UNCHANGED <<wiVars, rxVars, demoFlag, envMode, baseData, baseError, forecastData,
                   forecastError, dealerData, dealerError,
                   dsVars, cvVars, rwVars, fjVars, ovVars>>

RebalanceSettles == \E outcome \in LoadOutcomes : RebalanceSettlesAs(outcome)

\* loadDealerData up to its await (lines 2179-2191)
LoadDealerData ==
    /\ selectedDealer.present
    /\ "dealer" \notin ldPending
    /\ dealerError' = ""
    /\ IF demoMode
       THEN dealerData' = "demo" /\ UNCHANGED ldPending
       ELSE ldPending' = ldPending \cup {"dealer"} /\ UNCHANGED dealerData
    /\ UNCHANGED <<wiVars, rxVars, demoFlag, envMode, baseData, baseError, forecastData,
                   forecastError, rebalanceData, rebalanceError,
                   dsVars, cvVars, rwVars, fjVars, ovVars>>

\* loadDealerData from the await on (lines 2191-2213)
DealerDataSettlesAs(outcome) ==
    /\ "dealer" \in ldPending
    /\ ldPending' = ldPending \ {"dealer"}
    /\ IF outcome = "failed"
       THEN IF DEMO_MODE
            THEN dealerData' = "demo" /\ UNCHANGED dealerError
            ELSE dealerError' = LoadFailure /\ UNCHANGED dealerData
       ELSE /\ dealerData' = IF outcome = "data" THEN "api" ELSE "empty"
            /\ UNCHANGED dealerError
    /\ UNCHANGED <<wiVars, rxVars, demoFlag, envMode, baseData, baseError, forecastData,
                   forecastError, rebalanceData, rebalanceError,
                   dsVars, cvVars, rwVars, fjVars, ovVars>>

DealerDataSettles == \E outcome \in LoadOutcomes : DealerDataSettlesAs(outcome)

LdWhatIfResolved == \E data \in LdBodies : WhatIfResolvedWith(data)

NextLoads ==
    \/ LoadBaseSettlesLd \/ ReloadBase
    \/ LoadForecast \/ ForecastSettles
    \/ LoadRebalance \/ RebalanceSettles
    \/ LoadDealerData \/ DealerDataSettles
    \/ RunWhatIf \/ LdWhatIfResolved \/ WhatIfRejected

SpecLoads == InitLoads /\ [][NextLoads]_vars

\* nothing on the page comes from the demo fixtures or the demo generators
ldNoDemo ==
    /\ ~demoMode
    /\ baseData # "demo" /\ forecastData # "demo" /\ rebalanceData # "demo"
    /\ dealerData # "demo" /\ whatIfForecast.source # "demo"

\* C26: when the app is built with VITE_DEMO_MODE=0, demoMode is never true
\* and no demo fixture or demo forecast is put in state, whatever the outcome
\* of the base, forecast, rebalance, dealer and what-if loads; a load that
\* fails leaves its error state set instead.
C26_DemoDisabled ==
    [][demoFlag = "0" =>
          /\ ldNoDemo /\ ldNoDemo'
          /\ LoadBaseSettlesAs("failed") => baseError' # ""
          /\ ForecastSettlesAs("failed") => forecastError' # ""
          /\ RebalanceSettlesAs("failed") => rebalanceError' # ""
          /\ DealerDataSettlesAs("failed") => dealerError' # ""
          /\ WhatIfRejected => whatIfError' # ""]_vars

\* a development build with the flag "0": the base lists came from the API,
\* the forecast and the what-if failed, the rebalance list came back empty
C26_Witness ==
    /\ demoFlag = "0" /\ envMode = "development"
    /\ baseData = "api" /\ forecastError # "" /\ rebalanceData = "empty"
    /\ whatIfError # "" /\ ldPending = {} /\ ~whatIfFetch.pending

(***************************************************************************)
(* SpecOverlap: runWhatIf invocations whose requests are in flight at the  *)
(* same time.  The debounce timer calls runWhatIf whether or not an        *)
(* earlier request has settled; the buttons do once whatIfLoading is       *)
(* false.  Responses settle in any order.                                  *)
(***************************************************************************)
MaxRuns == 3  \* runWhatIf invocations per behaviour

\* the inputs the page has after the base lists arrived from the API
OvInputs ==
    [sku |-> 1, region |-> "West", dealer |-> [present |-> TRUE, id |-> 1], horizon |-> 7,
     percent |-> 10, event |-> TagMonsoon, demoMode |-> FALSE]

\* the body the what-if endpoint answers a request with: the baseline of two
\* points from 14 March 2024, moved by the request's percent_change
OvBody(c) ==
    [hasPoints |-> TRUE,
     points |-> [i \in 1 .. 2 |->
        LET p == ServerPoint(formatDate(makeUTCDate(2024, 3, 14) + i - 1), i)
        IN  [date |-> p.date,
             forecast |-> (p.forecast * (100 + c.percent)) \div 100,
             lower |-> (p.lower * (100 + c.percent)) \div 100,
             upper |-> (p.upper * (100 + c.percent)) \div 100]]]

\* setWhatIfForecast of lines 2269-2297 for the invocation that read c
OvForecast(c, data) ==
    IF c.event \in DOMAIN EVENT_PROFILES /\ data.hasPoints
    THEN [source |-> "api", hasPoints |-> TRUE,
          points |-> ComposeFetched(data.points, c.event, c.dealer, today)]
    ELSE [source |-> "api", hasPoints |-> data.hasPoints, points |-> data.points]

\* the base load has just finished: the effect has armed its first timer
InitOverlap ==
    /\ DEMO_MODE \in BOOLEAN
    /\ demoMode = FALSE
    /\ selectedSku = OvInputs.sku /\ selectedRegion = OvInputs.region
    /\ selectedDealer = OvInputs.dealer /\ timeHorizon = OvInputs.horizon
    /\ whatIfPercent = OvInputs.percent /\ whatIfEvent = OvInputs.event
    /\ today = makeUTCDate(2024, 3, 10)
    /\ whatIfLoading = FALSE /\ whatIfError = "" /\ whatIfForecast = NoForecast
    /\ whatIfFetch = NoFetch /\ whatIfData = NoData
    /\ baseLoading = FALSE /\ whatIfTimerRef = 1
    /\ timers = {[id |-> 1, left |-> DebounceMs, run |-> OvInputs]}
    /\ sinceChange = 0 /\ lastRun = NoRun /\ burstRuns = 0 /\ userActions = 0
    /\ ovInFlight = {} /\ ovSeq = 0 /\ ovLatest = NoInputs
    /\ dsIdle /\ cvIdle /\ rwIdle /\ fjIdle /\ ldIdle

\* runWhatIf of the render with state c, up to its first await (lines 2220-2258)
OvInvoke(c) ==
    /\ ovSeq < MaxRuns
    /\ ovSeq' = ovSeq + 1
    /\ ovLatest' = c
    /\ whatIfError' = ""
    /\ IF c.demoMode
       THEN /\ whatIfForecast' = DemoForecast(c.horizon, c.percent, c.event, c.dealer, today)
            /\ whatIfLoading' = FALSE
            /\ UNCHANGED ovInFlight
       ELSE /\ ovInFlight' = ovInFlight \cup {[seq |-> ovSeq + 1, inputs |-> c]}
            /\ whatIfLoading' = TRUE
            /\ UNCHANGED whatIfForecast

\* the what-if slider moves (line 947); the effect clears its timer and arms
\* a new one that closes over the new render
OvChangePercent ==
    /\ \E p \in RxPercents \ {whatIfPercent} : whatIfPercent' = p
    /\ UNCHANGED <<DEMO_MODE, demoMode, selectedSku, selectedRegion, selectedDealer,
                   timeHorizon, whatIfEvent, today, whatIfLoading, whatIfError,
                   whatIfForecast, whatIfFetch, whatIfData, baseLoading, sinceChange,
                   lastRun, burstRuns, userActions,
                   dsVars, cvVars, rwVars, fjVars, ldVars, ovVars>>
    /\ EffectRuns(CurrentInputs', baseLoading)

\* lines 2344-2346: the timeout elapses and its callback calls runWhatIf
OvTimerFires ==
    /\ \E t \in timers :
          /\ timers' = timers \ {t}
          /\ OvInvoke(t.run)
    /\ UNCHANGED <<DEMO_MODE, demoMode, selectedSku, selectedRegion, selectedDealer,
                   timeHorizon, whatIfPercent, whatIfEvent, today, whatIfFetch, whatIfData,
                   baseLoading, whatIfTimerRef, sinceChange, lastRun, burstRuns, userActions,
                   dsVars, cvVars, rwVars, fjVars, ldVars>>

\* lines 964-975: the Run button (disabled while whatIfLoading) and the
\* retry of the error panel (shown when not loading) call runWhatIf
OvClickRunWhatIf ==
    /\ ~whatIfLoading
    /\ OvInvoke(CurrentInputs)
    /\ UNCHANGED <<DEMO_MODE, demoMode, selectedSku, selectedRegion, selectedDealer,
                   timeHorizon, whatIfPercent, whatIfEvent, today, whatIfFetch, whatIfData,
                   baseLoading, whatIfTimerRef, timers, sinceChange, lastRun, burstRuns,
                   userActions, dsVars, cvVars, rwVars, fjVars, ldVars>>

\* one of the pending requests resolves (lines 2269-2297, 2333-2335)
OvResolved ==
    /\ \E r \in ovInFlight :
          /\ ovInFlight' = ovInFlight \ {r}
          /\ whatIfData' = OvBody(r.inputs)
          /\ whatIfForecast' = OvForecast(r.inputs, OvBody(r.inputs))
    /\ whatIfLoading' = FALSE
    /\ UNCHANGED <<DEMO_MODE, demoMode, selectedSku, selectedRegion, selectedDealer,
                   timeHorizon, whatIfPercent, whatIfEvent, today, whatIfError, whatIfFetch,
                   rxVars, ovSeq, ovLatest, dsVars, cvVars, rwVars, fjVars, ldVars>>

\* one of the pending requests is rejected (lines 2298-2335)
OvRejected ==
    /\ \E r \in ovInFlight :
          /\ ovInFlight' = ovInFlight \ {r}
          /\ IF DEMO_MODE
             THEN /\ whatIfForecast' = DemoForecast(r.inputs.horizon, r.inputs.percent,
                                                    r.inputs.event, r.inputs.dealer, today)
                  /\ UNCHANGED whatIfError
             ELSE /\ whatIfError' = LoadFailure
                  /\ UNCHANGED whatIfForecast
    /\ whatIfLoading' = FALSE
    /\ UNCHANGED <<DEMO_MODE, demoMode, selectedSku, selectedRegion, selectedDealer,
                   timeHorizon, whatIfPercent, whatIfEvent, today, whatIfFetch, whatIfData,
                   rxVars, ovSeq, ovLatest, dsVars, cvVars, rwVars, fjVars, ldVars>>

NextOverlap ==
    \/ OvChangePercent \/ OvTimerFires \/ OvClickRunWhatIf
    \/ OvResolved \/ OvRejected

SpecOverlap == InitOverlap /\ [][NextOverlap]_vars

\* every invocation has settled, no timer is pending and no error is shown
ovSettled == ovSeq > 0 /\ ovInFlight = {} /\ timers = {} /\ whatIfError = ""

\* C27: once every runWhatIf invocation has settled, the stored whatIfForecast
\* is the result computed from the inputs of the most recently started one,
\* in whatever order the responses arrived.
C27_LatestRunWins ==
    ovSettled =>
        whatIfForecast \in
            { OvForecast(ovLatest, OvBody(ovLatest)),
              DemoForecast(ovLatest.horizon, ovLatest.percent, ovLatest.event,
                           ovLatest.dealer, today) }

\* C28: whatIfLoading is true exactly while some runWhatIf invocation has not
\* settled.
C28_LoadingTracksInFlight == whatIfLoading <=> (ovInFlight # {})

====
